---- MODULE Spec2Model ----
(***************************************************************************)
(* The node/credential type registry of packages/cli                       *)
(* (LoadNodesAndCredentials): loader set, aggregate known/loaded/types,    *)
(* the derivation pass, the post-rebuild hooks, the hot reload and the     *)
(* icon resolver.                                                          *)
(*                                                                         *)
(* JavaScript runs each handler to completion between two awaits, so one   *)
(* action is one synchronous segment of an async method: from the call (or *)
(* the resumption of an await) to the next await (or the return).          *)
(***************************************************************************)
EXTENDS Naturals, Sequences, FiniteSets, TLC

\* ------------------------------------------------------------------ bounds
\* concurrent async calls (init, loadPackage, postProcessLoaders) in flight
MaxTasks == 1
\* calls of init() in one run
MaxInits == 1
\* hooks registered with addPostProcessor
MaxHooks == 2
\* segments of an icon URL after the /icons/<package>/ prefix
MaxSegs == 3
\* file changes on disk in one run
MaxEvents == 3

\* --------------------------------------------------------------- constants
Undefined == "undefined"
CUSTOM_API_CALL_NAME == "Custom API Call"
CUSTOM_API_CALL_KEY == "__CUSTOM_API_CALL__"
E2E_TEST_NODE == "n8n-nodes-base.e2eTest"

EmptyMap == [k \in {} |-> Undefined]

MapPut(m, k, v) == [y \in (DOMAIN m) \cup {k} |-> IF y = k THEN v ELSE m[y]]

\* Object.assign-like copy of every key of src over dst (later keys win)
MapMerge(dst, src) ==
  [y \in (DOMAIN dst) \cup (DOMAIN src) |-> IF y \in DOMAIN src THEN src[y] ELSE dst[y]]

SeqToSet(s) == {s[i] : i \in 1..Len(s)}

\* an optional value: None is JavaScript's undefined, Some(v) a defined value
None == <<>>
Some(v) == <<v>>
IsSome(o) == Len(o) = 1
Val(o) == o[1]

\* optionalArray?.includes(x)
Includes(o, x) == IsSome(o) /\ x \in SeqToSet(Val(o))

\* ------------------------------------------------------------- filesystem
\* The package directories the discovery of init() finds, in scan order:
\* two copies of n8n-nodes-base (one per base path), one community package in
\* the download directory, the custom extension directory and, when the
\* environment names one, a second custom directory.
DirBase1 == "cli/../n8n-nodes-base"
DirBase2 == "cli/node_modules/n8n-nodes-base"
DirBeta == "download/node_modules/n8n-nodes-beta"
DirCustom == "custom"
DirCustom2 == "custom2"
\* custom directories of other configurations
DirShapes == "shapes"
DirBlank == "blank"

Dirs == {DirBase1, DirBase2, DirBeta, DirCustom, DirCustom2}

PkgBase == "n8n-nodes-base"
PkgBeta == "n8n-nodes-beta"
PkgCustom == "CUSTOM"
PackageNames == {PkgBase, PkgBeta, PkgCustom}

\* the name a loader constructed on a directory carries: the name in its
\* package.json, and CUSTOM for every CustomDirectoryLoader
PackageNameOf(dir) ==
  CASE dir = DirBase1 -> PkgBase
    [] dir = DirBase2 -> PkgBase
    [] dir = DirBeta -> PkgBeta
    [] OTHER -> PkgCustom

Option(n, v) == [name |-> n, value |-> v]

NodeDesc(n, usable, creds, props) ==
  [name |-> n, version |-> 1, defaultVersion |-> None,
   usableAsTool |-> usable, credentials |-> creds, properties |-> props]

CredDesc(n, ext, auth) == [name |-> n, extends |-> ext, authenticate |-> auth]

ResourceProp == [name |-> "resource", options |-> Some(<<Option("Message", "message")>>)]
LimitProp == [name |-> "limit", options |-> None]
OperationProp == [name |-> "operation", options |-> Some(<<Option("Get", "get")>>)]
\* a resource parameter whose options are filled in at run time
NoOptionsProp == [name |-> "resource", options |-> Some(<<>>)]

\* What the files of a package directory declare: node descriptions, credential
\* descriptions, and the supportedNodes of each credential.  n8n-nodes-base has
\* a tool-usable node whose credential comes from n8n-nodes-beta.
\* The custom directory DirShapes holds nodes of every shape the injection
\* tells apart (a credential that reaches the allow-list through another one,
\* a direct child of it, a node below its default version, an unknown
\* credential name beside a good one and alone) and a credential under a name
\* n8n-nodes-base declares too; DirBlank holds a node whose resource parameter
\* has an empty option list.
DeclaredNodes(dir) ==
  CASE dir \in {DirBase1, DirBase2} ->
         <<NodeDesc("foo", TRUE, Some(<<"barApi">>), <<ResourceProp, LimitProp>>),
           NodeDesc("e2eTest", FALSE, None, <<LimitProp>>)>>
    [] dir = DirBeta ->
         <<NodeDesc("bar", FALSE, Some(<<"plainApi">>), <<ResourceProp>>)>>
    [] dir = DirCustom -> <<NodeDesc("baz", TRUE, None, <<LimitProp>>)>>
    [] dir = DirBlank ->
         <<NodeDesc("first", FALSE, Some(<<"authApi">>), <<ResourceProp>>),
           NodeDesc("blank", FALSE, Some(<<"authApi">>), <<LimitProp, NoOptionsProp>>),
           NodeDesc("after", FALSE, Some(<<"authApi">>), <<ResourceProp>>)>>
    [] dir = DirShapes ->
         <<NodeDesc("plain", FALSE, None, <<LimitProp>>),
           NodeDesc("chained", FALSE, Some(<<"chainApi">>), <<ResourceProp>>),
           NodeDesc("direct", FALSE, Some(<<"midApi">>), <<ResourceProp>>),
           [NodeDesc("old", FALSE, Some(<<"authApi">>), <<ResourceProp>>)
              EXCEPT !.defaultVersion = Some(2)],
           NodeDesc("mixed", TRUE, Some(<<"missingApi", "authApi">>),
                    <<OperationProp, LimitProp>>),
           NodeDesc("lost", FALSE, Some(<<"missingApi">>), <<ResourceProp>>),
           NodeDesc("orphan", FALSE, Some(<<"orphanApi">>), <<ResourceProp>>)>>
    [] OTHER -> <<NodeDesc("qux", FALSE, None, <<LimitProp>>)>>

DeclaredCredentials(dir) ==
  CASE dir \in {DirBase1, DirBase2} -> <<CredDesc("plainApi", None, None)>>
    [] dir = DirBeta -> <<CredDesc("barApi", Some(<<"oAuth2Api">>), None)>>
    [] dir = DirBlank -> <<CredDesc("authApi", None, Some("generic"))>>
    [] dir = DirShapes ->
         <<CredDesc("authApi", None, Some("generic")),
           CredDesc("midApi", Some(<<"oAuth2Api">>), None),
           CredDesc("chainApi", Some(<<"midApi">>), None),
           CredDesc("orphanApi", Some(<<"goneApi">>), None),
           CredDesc("plainApi", None, None)>>
    [] OTHER -> <<>>

DeclaredSupportedNodes(cred) ==
  CASE cred = "barApi" -> Some(<<"foo">>)
    [] cred = "plainApi" -> Some(<<"foo">>)
    [] OTHER -> None

\* ------------------------------------------------- DirectoryLoader (n8n-core)
\* The loader classes live in packages/core, outside the files at hand; they
\* are modelled from their contract: loadAll populates known/loaded/types of the
\* package (the lazy variant materialises no type object), reset clears them,
\* and the exclude/include lists filter by <package>.<type>.
KindLazy == "LazyPackageDirectoryLoader"
KindPackage == "PackageDirectoryLoader"
KindCustom == "CustomDirectoryLoader"

EmptyKnown == [nodes |-> EmptyMap, credentials |-> EmptyMap]
EmptyLoaded == [nodes |-> EmptyMap, credentials |-> EmptyMap]
EmptyTypes == [nodes |-> <<>>, credentials |-> <<>>]

\* The exclude and include lists handed to the constructor are the arrays of
\* the registry itself (init pushes onto the same array), so a loader reads
\* them as they are when it loads.
NewLoader(kind, dir) ==
  [kind |-> kind, directory |-> dir, packageName |-> PackageNameOf(dir),
   known |-> EmptyKnown, nodeTypes |-> EmptyMap, credentialTypes |-> EmptyMap,
   types |-> EmptyTypes]

\* LazyPackageDirectoryLoader extends PackageDirectoryLoader
IsPackageDirectoryLoader(l) == l.kind \in {KindLazy, KindPackage}

IsLazyLoaded(l) == l.kind = KindLazy

\* `${packageName}.${type}`: the name a loader gives a node type
FullNodeName(packageName, typeName) == packageName \o "." \o typeName

\* exclude first, then include (when non-empty) narrows
Kept(fullName, excl, incl) ==
  /\ fullName \notin SeqToSet(excl)
  /\ (Len(incl) = 0 \/ fullName \in SeqToSet(incl))

ClassNameOf(typeName) == typeName \o "Class"
SourcePathOf(typeName) == "dist/" \o typeName \o ".js"


LoaderLoadAll(l, excl, incl) ==
  LET full(d) == [d EXCEPT !.name = FullNodeName(l.packageName, @)]
      keep(d) == Kept(d.name, excl, incl)
      declared == DeclaredNodes(l.directory)
      nodes == SelectSeq([i \in 1..Len(declared) |-> full(declared[i])], keep)
      creds == DeclaredCredentials(l.directory)
      nodeNames == {nodes[i].name : i \in 1..Len(nodes)}
      credNames == {creds[i].name : i \in 1..Len(creds)}
  IN  [l EXCEPT
        !.known = [nodes |-> [t \in nodeNames |->
                                [className |-> ClassNameOf(t),
                                 sourcePath |-> SourcePathOf(t)]],
                   credentials |-> [t \in credNames |->
                                [className |-> ClassNameOf(t),
                                 sourcePath |-> SourcePathOf(t),
                                 supportedNodes |-> DeclaredSupportedNodes(t),
                                 extends |-> (CHOOSE c \in SeqToSet(creds) : c.name = t).extends]]],
        !.nodeTypes = IF IsLazyLoaded(l) THEN EmptyMap
                      ELSE [t \in nodeNames |-> [type |-> ClassNameOf(t),
                                                 sourcePath |-> SourcePathOf(t)]],
        !.credentialTypes = IF IsLazyLoaded(l) THEN EmptyMap
                            ELSE [t \in credNames |-> [type |-> ClassNameOf(t),
                                                       sourcePath |-> SourcePathOf(t)]],
        !.types = [nodes |-> nodes, credentials |-> creds]]

LoaderReset(l) ==
  [l EXCEPT !.known = EmptyKnown, !.nodeTypes = EmptyMap,
            !.credentialTypes = EmptyMap, !.types = EmptyTypes]

\* ---------------------------------------------------------------- loaders
\* this.loaders is a JavaScript object keyed by package name; Object.values
\* walks it in insertion order.  It is kept as the sequence of its values.
LoaderIndex(ls, name) ==
  IF \E i \in 1..Len(ls) : ls[i].packageName = name
  THEN CHOOSE i \in 1..Len(ls) : ls[i].packageName = name
  ELSE 0

\* packageName in this.loaders
HasLoader(ls, name) == LoaderIndex(ls, name) /= 0

\* this.loaders[name] = loader: an existing key keeps its place
LoadersPut(ls, l) ==
  IF HasLoader(ls, l.packageName)
  THEN [ls EXCEPT ![LoaderIndex(ls, l.packageName)] = l]
  ELSE Append(ls, l)

\* delete this.loaders[name]
\* variant: delete this.loaders[name] left out
M_LoadersDeleteNone(ls, name) == ls

LoadersDelete(ls, name) == SelectSeq(ls, LAMBDA l : l.packageName /= name)

\* ----------------------------------------------------- postProcessLoaders
EmptyAggregate == [known |-> EmptyKnown, loaded |-> EmptyLoaded, types |-> EmptyTypes]

\* path.join(directory, sourcePath)
PathJoin(dir, sourcePath) == dir \o "/" \o sourcePath

\* `${loader.packageName}.${nodeName}`
Qualify(packageName, nodeName) == packageName \o "." \o nodeName

\* variant: the merge loop without its known.nodes part
M_MergeKnownNodesNone(knownNodes, l) == knownNodes

\* the known.nodes entries of one loader, sourcePath joined with its directory
MergeKnownNodes(knownNodes, l) ==
  MapMerge(knownNodes,
           [t \in DOMAIN l.known.nodes |->
              [className |-> l.known.nodes[t].className,
               sourcePath |-> PathJoin(l.directory, l.known.nodes[t].sourcePath)]])

\* the known.credentials entries of one loader; supportedNodes is qualified with
\* the package name for a PackageDirectoryLoader and dropped otherwise
MergeKnownCredentials(knownCreds, l) ==
  MapMerge(knownCreds,
           [t \in DOMAIN l.known.credentials |->
              LET c == l.known.credentials[t]
                  q(n) == Qualify(l.packageName, n)
              IN  [className |-> c.className,
                   sourcePath |-> PathJoin(l.directory, c.sourcePath),
                   supportedNodes |->
                     IF IsPackageDirectoryLoader(l) /\ IsSome(c.supportedNodes)
                     THEN Some([i \in 1..Len(Val(c.supportedNodes)) |-> q(Val(c.supportedNodes)[i])])
                     ELSE None,
                   extends |-> c.extends]])

\* variant: a key the aggregate holds already is not overwritten
M_MergeLoaderKeepsFirst(agg, l) ==
  [types |-> [nodes |-> agg.types.nodes \o l.types.nodes,
              credentials |-> agg.types.credentials \o l.types.credentials],
   loaded |-> [nodes |-> MapMerge(l.nodeTypes, agg.loaded.nodes),
               credentials |-> MapMerge(l.credentialTypes, agg.loaded.credentials)],
   known |-> [nodes |-> MapMerge(MergeKnownNodes(EmptyMap, l), agg.known.nodes),
              credentials |-> MapMerge(MergeKnownCredentials(EmptyMap, l),
                                       agg.known.credentials)]]

\* one iteration of the loop over Object.values(this.loaders)
MergeLoader(agg, l) ==
  [types |-> [nodes |-> agg.types.nodes \o l.types.nodes,
              credentials |-> agg.types.credentials \o l.types.credentials],
   loaded |-> [nodes |-> MapMerge(agg.loaded.nodes, l.nodeTypes),
               credentials |-> MapMerge(agg.loaded.credentials, l.credentialTypes)],
   known |-> [nodes |-> MergeKnownNodes(agg.known.nodes, l),
              credentials |-> MergeKnownCredentials(agg.known.credentials, l)]]

RECURSIVE MergeFrom(_, _, _)
MergeFrom(agg, ls, i) ==
  IF i > Len(ls) THEN agg ELSE MergeFrom(MergeLoader(agg, ls[i]), ls, i + 1)

\* the three resets and the merge loop
MergeLoaders(ls) == MergeFrom(EmptyAggregate, ls, 1)

\* ---------------------------------------------------------- createAiTools
ToolName(nodeName) == nodeName \o "Tool"

\* NodeHelpers.convertNodeToAiTool (packages/workflow): renames the clone and
\* drops its usableAsTool flag
ConvertNodeToAiTool(description) ==
  [description EXCEPT !.name = ToolName(@), !.usableAsTool = FALSE]

UndefinedKnownEntry == [className |-> Undefined, sourcePath |-> Undefined]

\* variant: the lookup finds nothing
M_KnownNodeAtUndefined(knownNodes, name) == UndefinedKnownEntry

\* this.known.nodes[name], undefined for a missing key
KnownNodeAt(knownNodes, name) ==
  IF name \in DOMAIN knownNodes THEN knownNodes[name] ELSE UndefinedKnownEntry

\* variant: the tool is added without the push onto supportedNodes
M_WrapUsableNodeNoPush(agg, usableNode) ==
  LET wrapped == ConvertNodeToAiTool(usableNode)
  IN  [agg EXCEPT
        !.types.nodes = Append(@, wrapped),
        !.known.nodes = MapPut(@, wrapped.name, KnownNodeAt(@, usableNode.name))]

\* the body of the loop over usableNodes, for one usable node
WrapUsableNode(agg, usableNode) ==
  LET wrapped == ConvertNodeToAiTool(usableNode)
      kc == agg.known.credentials
  IN  [agg EXCEPT
        !.types.nodes = Append(@, wrapped),
        !.known.nodes = MapPut(@, wrapped.name, KnownNodeAt(@, usableNode.name)),
        !.known.credentials =
           [name \in DOMAIN kc |->
              IF Includes(kc[name].supportedNodes, usableNode.name)
              THEN [kc[name] EXCEPT
                      !.supportedNodes = Some(Append(Val(@), wrapped.name))]
              ELSE kc[name]]]

RECURSIVE WrapFrom(_, _, _)
WrapFrom(agg, usableNodes, i) ==
  IF i > Len(usableNodes) THEN agg
  ELSE WrapFrom(WrapUsableNode(agg, usableNodes[i]), usableNodes, i + 1)

CreateAiTools(agg) ==
  WrapFrom(agg, SelectSeq(agg.types.nodes, LAMBDA n : n.usableAsTool = TRUE), 1)

\* ------------------------------------------------ injectCustomApiCallOptions
CustomApiCallOption == Option(CUSTOM_API_CALL_NAME, CUSTOM_API_CALL_KEY)

ProxyParents == {"oAuth2Api", "googleOAuth2Api", "oAuth1Api"}

\* this.types.credentials.find((t) => t.name === name): None when not found
FindCredential(creds, name) ==
  IF \E i \in 1..Len(creds) : creds[i].name = name
  THEN Some(creds[CHOOSE i \in 1..Len(creds) :
                    /\ creds[i].name = name
                    /\ \A j \in 1..(i - 1) : creds[j].name /= name])
  ELSE None

SupportsProxyAuth(creds, description) ==
  /\ IsSome(description.credentials)
  /\ \E i \in 1..Len(Val(description.credentials)) :
       LET credType == FindCredential(creds, Val(description.credentials)[i])
       IN  /\ IsSome(credType)
           /\ \/ IsSome(Val(credType).authenticate)
              \/ /\ IsSome(Val(credType).extends)
                 /\ \E parentType \in SeqToSet(Val(Val(credType).extends)) :
                      parentType \in ProxyParents

IsLatestVersion(node) ==
  \/ ~IsSome(node.defaultVersion)
  \/ Val(node.defaultVersion) = node.version

IsInjectTarget(p) == p.name \in {"resource", "operation"} /\ IsSome(p.options)

\* p.options[p.options.length - 1].name reads a property of undefined when the
\* array is empty: a TypeError
OptionsThrow(p) == IsInjectTarget(p) /\ Len(Val(p.options)) = 0

\* variant: the option is pushed without looking at the last option
M_InjectPropertyAlways(p) ==
  IF IsInjectTarget(p)
  THEN [p EXCEPT !.options = Some(Append(Val(@), CustomApiCallOption))]
  ELSE p

InjectProperty(p) ==
  IF IsInjectTarget(p) /\ Val(p.options)[Len(Val(p.options))].name /= CUSTOM_API_CALL_NAME
  THEN [p EXCEPT !.options = Some(Append(Val(@), CustomApiCallOption))]
  ELSE p

\* node.properties.forEach: properties before a throwing one are already changed
RECURSIVE InjectProperties(_, _)
InjectProperties(props, i) ==
  IF i > Len(props) THEN [properties |-> props, threw |-> FALSE]
  ELSE IF OptionsThrow(props[i]) THEN [properties |-> props, threw |-> TRUE]
  ELSE InjectProperties([props EXCEPT ![i] = InjectProperty(props[i])], i + 1)

InjectNode(creds, node) ==
  IF IsLatestVersion(node) /\ SupportsProxyAuth(creds, node)
  THEN LET r == InjectProperties(node.properties, 1)
       IN  [node |-> [node EXCEPT !.properties = r.properties], threw |-> r.threw]
  ELSE [node |-> node, threw |-> FALSE]

\* this.types.nodes.forEach: [nodes, threw], nodes after a throwing one untouched
RECURSIVE InjectFrom(_, _, _)
InjectFrom(creds, nodes, i) ==
  IF i > Len(nodes) THEN [nodes |-> nodes, threw |-> FALSE]
  ELSE LET r == InjectNode(creds, nodes[i])
           next == [nodes EXCEPT ![i] = r.node]
       IN  IF r.threw THEN [nodes |-> next, threw |-> TRUE]
           ELSE InjectFrom(creds, next, i + 1)

InjectCustomApiCallOptions(types) == InjectFrom(types.credentials, types.nodes, 1)

\* this.createAiTools(); this.injectCustomApiCallOptions();  [agg, threw]
DerivationPass(agg) ==
  LET tools == CreateAiTools(agg)
      inj == InjectCustomApiCallOptions(tools.types)
  IN  [agg |-> [tools EXCEPT !.types.nodes = inj.nodes], threw |-> inj.threw]

\* this.logger.warn of supportsProxyAuth: one warning for each credential name
\* that find() does not resolve, up to the first credential that qualifies
\* (some() stops there)
RECURSIVE ProxyAuthWarnings(_, _, _)
ProxyAuthWarnings(creds, description, i) ==
  IF ~IsSome(description.credentials) \/ i > Len(Val(description.credentials)) THEN <<>>
  ELSE LET name == Val(description.credentials)[i]
           one == [credentials |-> Some(<<name>>)]
       IN  IF ~IsSome(FindCredential(creds, name))
           THEN <<[node |-> description.name, credential |-> name]>>
                  \o ProxyAuthWarnings(creds, description, i + 1)
           ELSE IF SupportsProxyAuth(creds, one) THEN <<>>
           ELSE ProxyAuthWarnings(creds, description, i + 1)

\* the warnings of one injection pass over the list: none for a node that is
\* not at its default version, none after a node at which the pass throws
RECURSIVE InjectWarnings(_, _, _)
InjectWarnings(creds, nodes, i) ==
  IF i > Len(nodes) THEN <<>>
  ELSE IF ~IsLatestVersion(nodes[i]) THEN InjectWarnings(creds, nodes, i + 1)
  ELSE ProxyAuthWarnings(creds, nodes[i], 1)
         \o (IF InjectNode(creds, nodes[i]).threw THEN <<>>
             ELSE InjectWarnings(creds, nodes, i + 1))

\* what the derivation pass logs on that aggregate
DerivationWarnings(agg) ==
  LET tools == CreateAiTools(agg)
  IN  InjectWarnings(tools.types.credentials, tools.types.nodes, 1)

\* what postProcessLoaders logs over these loaders
RebuildWarnings(ls) == DerivationWarnings(MergeLoaders(ls))

\* variant: the merged collections are published before the derivation pass
M_RebuildMergeOnly(ls) == [agg |-> MergeLoaders(ls), threw |-> FALSE]

\* The synchronous part of postProcessLoaders: the three resets, the merge
\* and the derivation pass.  [agg, threw]
Rebuild(ls) == DerivationPass(MergeLoaders(ls))

\* The descriptions of the loaders are the very objects the aggregate list
\* holds (concat copies references), so what the injection pushed onto their
\* option lists is pushed in the loaders too.  offset: length of the aggregate
\* list before the loader's own descriptions.
RECURSIVE OffsetOf(_, _)
OffsetOf(ls, i) == IF i <= 1 THEN 0 ELSE OffsetOf(ls, i - 1) + Len(ls[i - 1].types.nodes)

\* variant: the aggregate list holds copies, the loaders keep their own
M_SharedDescriptionsNone(ls, aggNodes) == ls

SharedDescriptions(ls, aggNodes) ==
  [i \in 1..Len(ls) |->
     [ls[i] EXCEPT !.types.nodes =
        [k \in 1..Len(ls[i].types.nodes) |-> aggNodes[OffsetOf(ls, i) + k]]]]

\* ------------------------------------------------------------------ state
VARIABLES
  loaders,         \* this.loaders, in insertion order
  known,           \* this.known
  loaded,          \* this.loaded
  types,           \* this.types
  excludeNodes,    \* this.excludeNodes
  includeNodes,    \* this.includeNodes
  postProcessors,  \* this.postProcessors
  tasks,           \* the async calls in flight, each at its await
  inits,           \* calls of init() so far
  lastCall,        \* the call that returned in the last step (NoCall: none did)
  observed,        \* what the reader of the registry got on its last query
  builtFrom,       \* history: the loaders the last rebuild merged
  customDirs,      \* getCustomDirectories(): settings plus environment
  iconQuery,       \* the resolveIcon call whose result the caller holds
  derivation,      \* runs of the derivation pass on one merged aggregate
  watch,           \* the file watchers of setupHotReload and their debounce timers
  warned,          \* the logger.warn calls of the last injection pass
  gmail            \* a Gmail Trigger node: its parameters, static data and poll in flight

regVars == <<loaders, known, loaded, types, excludeNodes, includeNodes,
             postProcessors, tasks, inits, lastCall, observed, builtFrom>>
auxVars == <<customDirs, iconQuery, derivation, watch, gmail>>
vars == <<regVars, auxVars, warned>>

TaskIds == 1..MaxTasks
Hooks == {"settings", "types"}

ErrDuplicate == "DuplicatePackage"
ErrLoad == "PackageLoadFailure"
ErrHook == "RebuildHookFailure"
ErrType == "TypeError"
Ok == "ok"

IdleTask ==
  [op |-> "idle", pc |-> "idle", arg |-> "", idx |-> 0, loader |-> None,
   hook |-> 0, trace |-> <<>>, log |-> <<>>]

NoCall ==
  [op |-> "none", arg |-> "", result |-> Ok, log |-> <<>>, loader |-> None,
   broadcast |-> FALSE]
NoIconQuery == [platform |-> "none", packageName |-> "", rest |-> <<>>, result |-> None]
NoDerivation == [runs |-> 0, first |-> None]

\* ------------------------------------------------------------ the watchers
\* debounce(reloader, 100): the wait in milliseconds
DEBOUNCE_WAIT == 100

\* time passes in steps of half the wait
TickMs == DEBOUNCE_WAIT \div 2

\* A glob of the watcher, '**/<base>.<ext>' with base "*" for any name, and a
\* changed file, <base>.<ext> somewhere under the directory of the loader.
Glob(base, ext) == [base |-> base, ext |-> ext]
File(base, ext) == [base |-> base, ext |-> ext]

Files ==
  {File("nodes", "json"), File("credentials", "json"), File("package", "json"),
   File("Foo.node", "js"), File("Foo.node", "ts")}

\* variant: every loader is watched for all source and data files
M_ToWatchAll(l) == {Glob("*", "js"), Glob("*", "json")}

\* toWatch of setupHotReload
ToWatch(l) ==
  IF IsLazyLoaded(l)
  THEN {Glob("nodes", "json"), Glob("credentials", "json")}
  ELSE {Glob("*", "js"), Glob("*", "json")}

\* chokidar (picomatch): '**/x.json' matches x.json in any directory
GlobMatches(glob, file) ==
  /\ glob.ext = file.ext
  /\ glob.base = "*" \/ glob.base = file.base

\* One watcher and one debounced reloader per loader.  state: "none" (not set
\* up), "missing" (the directory could not be accessed: nothing is watched),
\* "watched".  pending: the debounce timer runs, with `remaining` ms to go;
\* sinceLast: ms since the last call of the debounced function (at most the
\* wait is kept); burst: calls since the reloader last ran; bursts: bursts
\* begun; reloads: runs of the reloader; covered: the calls its last run
\* stood for.
Unwatched ==
  [state |-> "none", patterns |-> {}, pending |-> FALSE, remaining |-> 0,
   sinceLast |-> DEBOUNCE_WAIT, burst |-> 0, bursts |-> 0, reloads |-> 0, covered |-> 0]

NoChange == [packageName |-> "", file |-> File("", ""), delivered |-> FALSE]

NoWatch == [loader |-> [name \in PackageNames |-> Unwatched], events |-> 0, last |-> NoChange]

\* ------------------------------------------------- GmailTrigger.node.ts
\* nodeStaticData of a node that has not polled yet; lastTimeChecked 0 stands
\* for undefined (both are falsy)
NoStaticData == [lastTimeChecked |-> 0, possibleDuplicates |-> <<>>]

NoResult == [kind |-> "none", items |-> <<>>, logged |-> FALSE]

\* no Gmail Trigger node in the workflow
NoGmail ==
  [simple |-> TRUE, includeDrafts |-> FALSE, manual |-> FALSE, static |-> NoStaticData,
   polls |-> 0, pc |-> "none", startDate |-> 0, endDate |-> 0, received |-> <<>>,
   responseData |-> <<>>, i |-> 0, fetched |-> <<>>, parsed |-> <<>>, result |-> NoResult,
   previous |-> {}]

\* variant: a call that finds the timer running leaves it running
M_DebouncedNoRestart(w) ==
  [w EXCEPT !.pending = TRUE,
            !.remaining = IF w.pending THEN @ ELSE DEBOUNCE_WAIT,
            !.sinceLast = 0,
            !.burst = @ + 1,
            !.bursts = IF w.pending THEN @ ELSE @ + 1]

\* a call of the debounced reloader (lodash, trailing edge): the timer is
\* started, or started afresh when it runs already
Debounced(w) ==
  [w EXCEPT !.pending = TRUE,
            !.remaining = DEBOUNCE_WAIT,
            !.sinceLast = 0,
            !.burst = @ + 1,
            !.bursts = IF w.pending THEN @ ELSE @ + 1]

\* the timer of the debounced reloader and the time since its last call,
\* ms milliseconds later
Elapsed(w, ms) ==
  [w EXCEPT !.remaining = IF w.pending /\ @ > ms THEN @ - ms ELSE 0,
            !.sinceLast = IF @ + ms < DEBOUNCE_WAIT THEN @ + ms ELSE DEBOUNCE_WAIT]

\* the timer has run out and the reloader is invoked
Invoked(w) ==
  [w EXCEPT !.pending = FALSE, !.burst = 0, !.reloads = @ + 1, !.covered = w.burst]

Aggregate == [known |-> known, loaded |-> loaded, types |-> types]

\* the custom extension directory alone, or with one more from the environment
CustomDirChoices == {<<DirCustom>>, <<DirCustom, DirCustom2>>}

\* Where init() runs runDirectoryLoader, in order: loadNodesFromNodeModules over
\* the two base paths and the download directory (errors caught and logged),
\* then loadNodesFromCustomDirectories (errors not caught).
NodeModulesPlan ==
  <<[kind |-> KindLazy, dir |-> DirBase1, caught |-> TRUE],
    [kind |-> KindLazy, dir |-> DirBase2, caught |-> TRUE],
    [kind |-> KindLazy, dir |-> DirBeta, caught |-> TRUE]>>

InitPlan ==
  NodeModulesPlan \o
  [i \in 1..Len(customDirs) |-> [kind |-> KindCustom, dir |-> customDirs[i], caught |-> FALSE]]

\* download/node_modules/<packageName> of loadPackage
DownloadDir(packageName) == "download/node_modules/" \o packageName
Downloadable == {PkgBeta}

Init ==
  /\ loaders = <<>>
  /\ known = EmptyKnown
  /\ loaded = EmptyLoaded
  /\ types = EmptyTypes
  /\ excludeNodes = <<>>
  /\ includeNodes = <<>>
  /\ postProcessors = <<>>
  /\ tasks = [t \in TaskIds |-> IdleTask]
  /\ inits = 0
  /\ lastCall = NoCall
  /\ observed = None
  /\ builtFrom = <<>>
  /\ customDirs \in CustomDirChoices
  /\ iconQuery = NoIconQuery
  /\ derivation = NoDerivation
  /\ watch = NoWatch
  /\ gmail = NoGmail
  /\ warned = RebuildWarnings(builtFrom)

\* variant: the notification is sent however the reload cycle ends
M_NotifiesAlways(op, result) == op = "reload"

\* push.broadcast('nodeDescriptionUpdated', {}): the last statement of the
\* reloader, reached when its await of postProcessLoaders has resolved
Notifies(op, result) == op = "reload" /\ result = Ok

\* a call returns (or rejects): its slot is free again
Finish(t, op, arg, result, log) ==
  /\ tasks' = [tasks EXCEPT ![t] = IdleTask]
  /\ lastCall' = [op |-> op, arg |-> arg, result |-> result, log |-> log,
                  loader |-> None, broadcast |-> Notifies(op, result)]

\* addPostProcessor(fn)
AddPostProcessor(h) ==
  /\ Len(postProcessors) < MaxHooks
  /\ h \notin SeqToSet(postProcessors)
  /\ postProcessors' = Append(postProcessors, h)
  /\ observed' = None
  /\ lastCall' = NoCall
  /\ UNCHANGED <<loaders, known, loaded, types, excludeNodes, includeNodes,
                 tasks, inits, builtFrom, auxVars, warned>>

\* variant: init() that pushes nothing on the exclude list
M_InitStartNoPush(t) ==
  /\ tasks[t].op = "idle"
  /\ inits < MaxInits
  /\ inits' = inits + 1
  /\ tasks' = [tasks EXCEPT ![t] = [IdleTask EXCEPT !.op = "init", !.pc = "check", !.idx = 1]]
  /\ observed' = None
  /\ lastCall' = NoCall
  /\ UNCHANGED <<loaders, known, loaded, types, excludeNodes, includeNodes, postProcessors,
                 builtFrom, auxVars, warned>>

\* init() up to its first await (the glob of loadNodesFromNodeModules)
InitStart(t) ==
  /\ tasks[t].op = "idle"
  /\ inits < MaxInits
  /\ inits' = inits + 1
  /\ excludeNodes' = Append(excludeNodes, E2E_TEST_NODE)
  /\ tasks' = [tasks EXCEPT ![t] = [IdleTask EXCEPT !.op = "init", !.pc = "check", !.idx = 1]]
  /\ observed' = None
  /\ lastCall' = NoCall
  /\ UNCHANGED <<loaders, known, loaded, types, includeNodes, postProcessors,
                 builtFrom, auxVars, warned>>

\* variant: runDirectoryLoader without its test
M_IsDuplicateNever(ls, l) == FALSE

\* the test of runDirectoryLoader: loader.packageName in this.loaders
IsDuplicate(ls, l) == HasLoader(ls, l.packageName)

\* init() goes on to the next discovered directory, or to postProcessLoaders
InitAdvance(task, logged) ==
  IF task.idx < Len(InitPlan)
  THEN [task EXCEPT !.idx = @ + 1, !.pc = "check", !.loader = None, !.log = @ \o logged]
  ELSE [task EXCEPT !.pc = "rebuild", !.loader = None, !.log = @ \o logged]

LogEntry(dir, err) == <<[dir |-> dir, error |-> err]>>

\* variant: no try/catch in loadNodesFromNodeModules either
M_InitErrorFatal(t, err) == Finish(t, "init", "", err, tasks[t].log)

\* An error of runDirectoryLoader inside init(): loadNodesFromNodeModules
\* catches and logs it, loadNodesFromCustomDirectories lets it reject init().
InitError(t, err) ==
  LET task == tasks[t]
      item == InitPlan[task.idx]
  IN  IF item.caught
      THEN /\ tasks' = [tasks EXCEPT ![t] = InitAdvance(task, LogEntry(item.dir, err))]
           /\ lastCall' = NoCall
      ELSE Finish(t, "init", "", err, task.log)

\* init(): runDirectoryLoader on the next discovered directory, up to the
\* await of loadAll
InitRunDirectoryLoader(t) ==
  /\ tasks[t].op = "init"
  /\ tasks[t].pc = "check"
  /\ LET item == InitPlan[tasks[t].idx]
         l == NewLoader(item.kind, item.dir)
     IN  IF IsDuplicate(loaders, l)
         THEN InitError(t, ErrDuplicate)
         ELSE /\ tasks' = [tasks EXCEPT ![t].pc = "loading", ![t].loader = Some(l)]
              /\ lastCall' = NoCall
  /\ observed' = None
  /\ UNCHANGED <<loaders, known, loaded, types, excludeNodes, includeNodes,
                 postProcessors, inits, builtFrom, auxVars, warned>>

\* loadPackage(name) up to the await of loadAll
LoadPackage(t, name) ==
  /\ tasks[t].op = "idle"
  /\ LET l == NewLoader(KindPackage, DownloadDir(name))
     IN  IF IsDuplicate(loaders, l)
         THEN Finish(t, "loadPackage", name, ErrDuplicate, <<>>)
         ELSE /\ tasks' = [tasks EXCEPT ![t] =
                    [IdleTask EXCEPT !.op = "loadPackage", !.pc = "loading",
                                     !.arg = name, !.loader = Some(l)]]
              /\ lastCall' = NoCall
  /\ observed' = None
  /\ UNCHANGED <<loaders, known, loaded, types, excludeNodes, includeNodes,
                 postProcessors, inits, builtFrom, auxVars, warned>>

\* loadAll resolves: the loader is registered and runDirectoryLoader returns
LoadAllResolves(t) ==
  /\ tasks[t].pc = "loading"
  /\ LET task == tasks[t]
         l == LoaderLoadAll(Val(task.loader), excludeNodes, includeNodes)
     IN  /\ loaders' = LoadersPut(loaders, l)
         /\ IF task.op = "init"
            THEN /\ tasks' = [tasks EXCEPT ![t] = InitAdvance(task, <<>>)]
                 /\ lastCall' = NoCall
            ELSE Finish(t, task.op, task.arg, Ok, task.log)
  /\ observed' = None
  /\ UNCHANGED <<known, loaded, types, excludeNodes, includeNodes,
                 postProcessors, inits, builtFrom, auxVars, warned>>

\* loadAll rejects (malformed manifest, missing directory, parse error)
LoadAllRejects(t) ==
  /\ tasks[t].pc = "loading"
  /\ IF tasks[t].op = "init"
     THEN InitError(t, ErrLoad)
     ELSE Finish(t, tasks[t].op, tasks[t].arg, ErrLoad, tasks[t].log)
  /\ observed' = None
  /\ UNCHANGED <<loaders, known, loaded, types, excludeNodes, includeNodes,
                 postProcessors, inits, builtFrom, auxVars, warned>>

\* variant: the loader is removed without being reset
M_ReleasedNotReset(ls, name) ==
  IF HasLoader(ls, name) THEN Some(ls[LoaderIndex(ls, name)]) ELSE None

\* the loader object unloadPackage lets go of, as it is when the call returns
\* (None: this.loaders had none under the name)
Released(ls, name) ==
  IF HasLoader(ls, name) THEN Some(LoaderReset(ls[LoaderIndex(ls, name)])) ELSE None

\* unloadPackage(name): no await in it
UnloadPackage(name) ==
  /\ loaders' = IF HasLoader(loaders, name) THEN LoadersDelete(loaders, name) ELSE loaders
  /\ lastCall' = [op |-> "unloadPackage", arg |-> name, result |-> Ok, log |-> <<>>,
                  loader |-> Released(loaders, name), broadcast |-> FALSE]
  /\ observed' = None
  /\ UNCHANGED <<known, loaded, types, excludeNodes, includeNodes,
                 postProcessors, tasks, inits, builtFrom, auxVars, warned>>

\* variant: the loop runs over the hooks last-registered first
M_HookAtReversed(pp, i) == pp[Len(pp) - i + 1]

\* the postProcessor the for-of loop of postProcessLoaders takes i-th
HookAt(pp, i) == pp[i]

StartEvent(h) == "start:" \o h
DoneEvent(h) == "done:" \o h

\* what postProcessLoaders has done when it reaches the await of its first hook
RebuildTrace == <<"merge", "createAiTools", "injectCustomApiCallOptions">>

\* postProcessLoaders from its first line to its first await: the three
\* resets, the merge, both derivation passes and the call of the first hook
PostProcessLoaders(ls, t, op, arg, log) ==
  LET r == Rebuild(ls)
  IN  /\ known' = r.agg.known
      /\ loaded' = r.agg.loaded
      /\ types' = r.agg.types
      /\ loaders' = SharedDescriptions(ls, r.agg.types.nodes)
      /\ builtFrom' = ls
      /\ warned' = RebuildWarnings(ls)
      /\ IF r.threw
         THEN Finish(t, op, arg, ErrType, log)
         ELSE IF Len(postProcessors) = 0
         THEN Finish(t, op, arg, Ok, log)
         ELSE /\ tasks' = [tasks EXCEPT ![t] =
                    [IdleTask EXCEPT !.op = op, !.pc = "hook", !.hook = 1, !.log = log,
                       !.arg = arg,
                       !.trace = Append(RebuildTrace, StartEvent(HookAt(postProcessors, 1)))]]
              /\ lastCall' = NoCall

\* the end of init(): await this.postProcessLoaders()
InitPostProcess(t) ==
  /\ tasks[t].op = "init"
  /\ tasks[t].pc = "rebuild"
  /\ PostProcessLoaders(loaders, t, "init", "", tasks[t].log)
  /\ observed' = None
  /\ UNCHANGED <<excludeNodes, includeNodes, postProcessors, inits, auxVars>>

\* postProcessLoaders() called from outside (after loadPackage / unloadPackage)
CallPostProcessLoaders(t) ==
  /\ tasks[t].op = "idle"
  /\ PostProcessLoaders(loaders, t, "postProcessLoaders", "", <<>>)
  /\ observed' = None
  /\ UNCHANGED <<excludeNodes, includeNodes, postProcessors, inits, auxVars>>

\* the awaited hook resolves: the loop calls the next one, or the rebuild ends
HookResolves(t) ==
  /\ tasks[t].pc = "hook"
  /\ LET task == tasks[t]
         done == Append(task.trace, DoneEvent(HookAt(postProcessors, task.hook)))
     IN  IF task.hook < Len(postProcessors)
         THEN /\ tasks' = [tasks EXCEPT ![t].hook = @ + 1,
                    ![t].trace = Append(done, StartEvent(HookAt(postProcessors, task.hook + 1)))]
              /\ lastCall' = NoCall
         ELSE Finish(t, task.op, task.arg, Ok, task.log)
  /\ observed' = None
  /\ UNCHANGED <<loaders, known, loaded, types, excludeNodes, includeNodes,
                 postProcessors, inits, builtFrom, auxVars, warned>>

\* variant: the loop catches a rejected hook, logs it and goes on
M_HookRejectsCaught(t) ==
  /\ tasks[t].pc = "hook"
  /\ LET task == tasks[t]
         failed == Append(task.trace, "failed:" \o HookAt(postProcessors, task.hook))
     IN  IF task.hook < Len(postProcessors)
         THEN /\ tasks' = [tasks EXCEPT ![t].hook = @ + 1,
                    ![t].trace = Append(failed, StartEvent(HookAt(postProcessors, task.hook + 1)))]
              /\ lastCall' = NoCall
         ELSE Finish(t, task.op, task.arg, Ok, task.log)
  /\ observed' = None
  /\ UNCHANGED <<loaders, known, loaded, types, excludeNodes, includeNodes,
                 postProcessors, inits, builtFrom, auxVars, warned>>

\* the awaited hook rejects: nothing catches it, postProcessLoaders rejects
HookRejects(t) ==
  /\ tasks[t].pc = "hook"
  /\ Finish(t, tasks[t].op, tasks[t].arg, ErrHook, tasks[t].log)
  /\ observed' = None
  /\ UNCHANGED <<loaders, known, loaded, types, excludeNodes, includeNodes,
                 postProcessors, inits, builtFrom, auxVars, warned>>

\* The reloader of setupHotReload fires for a watched loader (the debounce
\* window has passed): loader.reset(), up to the await of loader.loadAll()
ReloaderBegins(t, name) ==
  /\ tasks[t].op = "idle"
  /\ HasLoader(loaders, name)
  /\ LET l == LoaderReset(loaders[LoaderIndex(loaders, name)])
     IN  /\ loaders' = LoadersPut(loaders, l)
         /\ tasks' = [tasks EXCEPT ![t] =
               [IdleTask EXCEPT !.op = "reload", !.pc = "reloading",
                                !.arg = name, !.loader = Some(l)]]
  /\ lastCall' = NoCall
  /\ observed' = None
  /\ UNCHANGED <<known, loaded, types, excludeNodes, includeNodes,
                 postProcessors, inits, builtFrom>>

\* a reload of a loader of this.loaders, whatever the watcher saw
HotReloadStart(t, name) == ReloaderBegins(t, name) /\ UNCHANGED <<auxVars, warned>>

\* the loader the reloader holds is the one this.loaders has under its name
\* (unloadPackage may have removed it since the reload began)
StillRegistered(ls, l) ==
  /\ HasLoader(ls, l.packageName)
  /\ ls[LoaderIndex(ls, l.packageName)].kind = l.kind
  /\ ls[LoaderIndex(ls, l.packageName)].directory = l.directory

\* the reloader's loadAll resolves: await this.postProcessLoaders() follows in
\* the same turn, up to the await of its first hook
HotReloadResolves(t) ==
  /\ tasks[t].pc = "reloading"
  /\ LET task == tasks[t]
         l == LoaderLoadAll(Val(task.loader), excludeNodes, includeNodes)
         ls == IF StillRegistered(loaders, l) THEN LoadersPut(loaders, l) ELSE loaders
     IN  PostProcessLoaders(ls, t, "reload", task.arg, <<>>)
  /\ observed' = None
  /\ UNCHANGED <<excludeNodes, includeNodes, postProcessors, inits, auxVars>>

\* the reloader's loadAll rejects: the reloader rejects, nothing is rebuilt
HotReloadRejects(t) ==
  /\ tasks[t].pc = "reloading"
  /\ Finish(t, "reload", tasks[t].arg, ErrLoad, <<>>)
  /\ observed' = None
  /\ UNCHANGED <<loaders, known, loaded, types, excludeNodes, includeNodes,
                 postProcessors, inits, builtFrom, auxVars, warned>>

\* a reader (the getters, the types field) between two segments of a call in
\* flight
Query ==
  /\ \E t \in TaskIds : tasks[t].op /= "idle"
  /\ observed = None
  /\ observed' = Some(Aggregate)
  /\ lastCall' = NoCall
  /\ UNCHANGED <<loaders, known, loaded, types, excludeNodes, includeNodes,
                 postProcessors, tasks, inits, builtFrom, auxVars, warned>>

Next ==
  \/ \E h \in Hooks : AddPostProcessor(h)
  \/ \E t \in TaskIds : InitStart(t)
  \/ \E t \in TaskIds : InitRunDirectoryLoader(t)
  \/ \E t \in TaskIds, name \in Downloadable : LoadPackage(t, name)
  \/ \E t \in TaskIds : LoadAllResolves(t)
  \/ \E t \in TaskIds : LoadAllRejects(t)
  \/ \E name \in PackageNames : UnloadPackage(name)
  \/ \E t \in TaskIds : InitPostProcess(t)
  \/ \E t \in TaskIds : CallPostProcessLoaders(t)
  \/ \E t \in TaskIds : HookResolves(t)
  \/ \E t \in TaskIds : HookRejects(t)
  \/ Query

Spec == Init /\ [][Next]_vars

\* ------------------------------------------------ the registry at run time
\* The registry as a completed init() leaves it (n8n-nodes-base and
\* n8n-nodes-beta lazily loaded, one custom directory, the frontend's hook
\* registered), then changed by loadPackage, unloadPackage, hot reloads and
\* rebuilds.
InitializedLoaders ==
  [i \in 1..3 |->
     LoaderLoadAll(NewLoader(<<KindLazy, KindLazy, KindCustom>>[i],
                             <<DirBase1, DirBeta, DirCustom>>[i]),
                   <<E2E_TEST_NODE>>, <<>>)]

InitReload ==
  /\ excludeNodes = <<E2E_TEST_NODE>>
  /\ includeNodes = <<>>
  /\ loaders = SharedDescriptions(InitializedLoaders, Rebuild(InitializedLoaders).agg.types.nodes)
  /\ known = Rebuild(InitializedLoaders).agg.known
  /\ loaded = Rebuild(InitializedLoaders).agg.loaded
  /\ types = Rebuild(InitializedLoaders).agg.types
  /\ postProcessors = <<"types">>
  /\ tasks = [t \in TaskIds |-> IdleTask]
  /\ inits = 1
  /\ lastCall = NoCall
  /\ observed = None
  /\ builtFrom = InitializedLoaders
  /\ customDirs = <<DirCustom>>
  /\ iconQuery = NoIconQuery
  /\ derivation = NoDerivation
  /\ watch = NoWatch
  /\ gmail = NoGmail
  /\ warned = RebuildWarnings(builtFrom)

NextReload ==
  \/ \E t \in TaskIds, name \in PackageNames : HotReloadStart(t, name)
  \/ \E t \in TaskIds : HotReloadResolves(t)
  \/ \E t \in TaskIds : HotReloadRejects(t)
  \/ \E t \in TaskIds, name \in Downloadable : LoadPackage(t, name)
  \/ \E t \in TaskIds : LoadAllResolves(t)
  \/ \E t \in TaskIds : LoadAllRejects(t)
  \/ \E name \in PackageNames : UnloadPackage(name)
  \/ \E t \in TaskIds : CallPostProcessLoaders(t)
  \/ \E t \in TaskIds : HookResolves(t)
  \/ \E t \in TaskIds : HookRejects(t)
  \/ Query

SpecReload == InitReload /\ [][NextReload]_vars

\* ------------------------------------------------- init() called once more
\* The registry as a completed init() leaves it, on which init() is called
\* again (inits counts the calls made from this state on); packages may be
\* unloaded in between.
InitReinit ==
  /\ excludeNodes = <<E2E_TEST_NODE>>
  /\ includeNodes = <<>>
  /\ loaders = SharedDescriptions(InitializedLoaders, Rebuild(InitializedLoaders).agg.types.nodes)
  /\ known = Rebuild(InitializedLoaders).agg.known
  /\ loaded = Rebuild(InitializedLoaders).agg.loaded
  /\ types = Rebuild(InitializedLoaders).agg.types
  /\ postProcessors = <<"types">>
  /\ tasks = [t \in TaskIds |-> IdleTask]
  /\ inits = 0
  /\ lastCall = NoCall
  /\ observed = None
  /\ builtFrom = InitializedLoaders
  /\ customDirs = <<DirCustom>>
  /\ iconQuery = NoIconQuery
  /\ derivation = NoDerivation
  /\ watch = NoWatch
  /\ gmail = NoGmail
  /\ warned = RebuildWarnings(builtFrom)

NextReinit ==
  \/ \E t \in TaskIds : InitStart(t)
  \/ \E t \in TaskIds : InitRunDirectoryLoader(t)
  \/ \E t \in TaskIds : LoadAllResolves(t)
  \/ \E t \in TaskIds : LoadAllRejects(t)
  \/ \E name \in PackageNames : UnloadPackage(name)
  \/ \E t \in TaskIds : InitPostProcess(t)
  \/ \E t \in TaskIds : HookResolves(t)
  \/ \E t \in TaskIds : HookRejects(t)
  \/ Query

SpecReinit == InitReinit /\ [][NextReinit]_vars

\* ------------------------------------------------- calls that overlap
\* Two calls in flight at once: the event loop runs a second loadPackage, or
\* a second firing of a reloader, while the first is at its await.  The
\* registry is the one init() leaves when no community package is installed
\* yet and no hook is registered.
RaceTaskIds == 1..(MaxTasks + 1)

RaceLoaders ==
  [i \in 1..2 |->
     LoaderLoadAll(NewLoader(<<KindLazy, KindCustom>>[i], <<DirBase1, DirCustom>>[i]),
                   <<E2E_TEST_NODE>>, <<>>)]

InitRace ==
  /\ excludeNodes = <<E2E_TEST_NODE>>
  /\ includeNodes = <<>>
  /\ loaders = SharedDescriptions(RaceLoaders, Rebuild(RaceLoaders).agg.types.nodes)
  /\ known = Rebuild(RaceLoaders).agg.known
  /\ loaded = Rebuild(RaceLoaders).agg.loaded
  /\ types = Rebuild(RaceLoaders).agg.types
  /\ postProcessors = <<>>
  /\ tasks = [t \in RaceTaskIds |-> IdleTask]
  /\ inits = 1
  /\ lastCall = NoCall
  /\ observed = None
  /\ builtFrom = RaceLoaders
  /\ customDirs = <<DirCustom>>
  /\ iconQuery = NoIconQuery
  /\ derivation = NoDerivation
  /\ watch = NoWatch
  /\ gmail = NoGmail
  /\ warned = RebuildWarnings(builtFrom)

NextRace ==
  \/ \E t \in RaceTaskIds, name \in Downloadable : LoadPackage(t, name)
  \/ \E t \in RaceTaskIds : LoadAllResolves(t)
  \/ \E t \in RaceTaskIds : LoadAllRejects(t)
  \/ \E t \in RaceTaskIds, name \in PackageNames : HotReloadStart(t, name)
  \/ \E t \in RaceTaskIds : HotReloadResolves(t)
  \/ \E t \in RaceTaskIds : HotReloadRejects(t)

SpecRace == InitRace /\ [][NextRace]_vars

\* ------------------------------------------------- setupHotReload at work
\* The callback of setupHotReload's forEach for one loader: no watcher when
\* the directory cannot be accessed, otherwise a watcher on toWatch whose
\* change events call the debounced reloader.
WatchLoader(name, exists) ==
  /\ HasLoader(loaders, name)
  /\ watch.loader[name].state = "none"
  /\ watch' = [watch EXCEPT
       !.loader[name] =
         IF exists
         THEN [@ EXCEPT !.state = "watched",
                        !.patterns = ToWatch(loaders[LoaderIndex(loaders, name)])]
         ELSE [@ EXCEPT !.state = "missing"]]
  /\ UNCHANGED <<regVars, customDirs, iconQuery, derivation, warned, gmail>>

\* the watcher delivers the change of a file to its listener
Delivers(w, file) ==
  /\ w.state = "watched"
  /\ \E glob \in w.patterns : GlobMatches(glob, file)

\* a file under the directory of a package changes on disk
FileChange(name, file) ==
  /\ watch.events < MaxEvents
  /\ watch' = [watch EXCEPT
       !.events = @ + 1,
       !.last = [packageName |-> name, file |-> file,
                 delivered |-> Delivers(watch.loader[name], file)],
       !.loader[name] = IF Delivers(@, file) THEN Debounced(@) ELSE @]
  /\ UNCHANGED <<regVars, customDirs, iconQuery, derivation, warned, gmail>>

\* time passes while a debounce timer runs
Tick ==
  /\ \E name \in PackageNames :
       watch.loader[name].pending /\ watch.loader[name].remaining > 0
  /\ watch' = [watch EXCEPT
       !.loader = [name \in PackageNames |-> Elapsed(watch.loader[name], TickMs)]]
  /\ UNCHANGED <<regVars, customDirs, iconQuery, derivation, warned, gmail>>

\* the debounce timer of a loader has run out: the reloader begins
DebounceExpires(t, name) ==
  /\ watch.loader[name].pending
  /\ watch.loader[name].remaining = 0
  /\ ReloaderBegins(t, name)
  /\ watch' = [watch EXCEPT !.loader[name] = Invoked(@)]
  /\ UNCHANGED <<customDirs, iconQuery, derivation, warned, gmail>>

\* The registry init() leaves when no community package is installed and no
\* hook is registered (n8n-nodes-base lazily loaded, one custom directory),
\* on which setupHotReload is called.
InitWatch ==
  /\ excludeNodes = <<E2E_TEST_NODE>>
  /\ includeNodes = <<>>
  /\ loaders = SharedDescriptions(RaceLoaders, Rebuild(RaceLoaders).agg.types.nodes)
  /\ known = Rebuild(RaceLoaders).agg.known
  /\ loaded = Rebuild(RaceLoaders).agg.loaded
  /\ types = Rebuild(RaceLoaders).agg.types
  /\ postProcessors = <<>>
  /\ tasks = [t \in RaceTaskIds |-> IdleTask]
  /\ inits = 1
  /\ lastCall = NoCall
  /\ observed = None
  /\ builtFrom = RaceLoaders
  /\ customDirs = <<DirCustom>>
  /\ iconQuery = NoIconQuery
  /\ derivation = NoDerivation
  /\ watch = NoWatch
  /\ gmail = NoGmail
  /\ warned = RebuildWarnings(builtFrom)

NextWatch ==
  \/ \E name \in PackageNames, exists \in BOOLEAN : WatchLoader(name, exists)
  \/ \E name \in PackageNames, file \in Files : FileChange(name, file)
  \/ Tick
  \/ \E t \in RaceTaskIds, name \in PackageNames : DebounceExpires(t, name)
  \/ \E t \in RaceTaskIds : HotReloadResolves(t)
  \/ \E t \in RaceTaskIds : HotReloadRejects(t)

SpecWatch == InitWatch /\ [][NextWatch]_vars

\* ------------------------------------------------------------ resolveIcon
\* A path is [drive, segs]: the drive is "" on POSIX.  The remainder of the
\* URL after url.substring(pathPrefix.length) is [root, segs]: root "" for a
\* relative remainder, "/" for a rooted one, "C:/" or "D:/" for one that starts
\* with a drive letter (a plain first segment on POSIX).
Platforms == {"posix", "win32"}
UrlRoots == {"", "/", "C:/", "D:/"}
UrlSegments == {"..", "icon.svg", "a..b", "n8n-nodes-beta"}

RECURSIVE SeqsUpTo(_, _)
SeqsUpTo(S, n) ==
  IF n = 0 THEN {<<>>}
  ELSE LET shorter == SeqsUpTo(S, n - 1)
       IN  shorter \cup {Append(q, x) : q \in shorter, x \in S}

UrlRests == [root : UrlRoots, segs : SeqsUpTo(UrlSegments, MaxSegs)]

\* loader.directory as an absolute path of the platform
DirectoryPath(platform, dir) ==
  [drive |-> IF platform = "win32" THEN "C:" ELSE "",
   segs |-> CASE dir = DirBase1 -> <<"opt", "n8n-nodes-base">>
              [] dir = DirBase2 -> <<"opt", "cli", "node_modules", "n8n-nodes-base">>
              [] dir = DirBeta -> <<"download", "node_modules", "n8n-nodes-beta">>
              [] dir = DirCustom -> <<"custom">>
              [] OTHER -> <<"custom2">>]

\* path normalisation: ".." removes the segment before it, and stays at the root
RECURSIVE NormalizeFrom(_, _, _)
NormalizeFrom(acc, segs, i) ==
  IF i > Len(segs) THEN acc
  ELSE IF segs[i] = ".."
       THEN NormalizeFrom(IF Len(acc) = 0 THEN acc ELSE SubSeq(acc, 1, Len(acc) - 1), segs, i + 1)
       ELSE NormalizeFrom(Append(acc, segs[i]), segs, i + 1)

\* the drive letter of a remainder root, as a path segment or a drive
DriveOf(root) == IF root = "C:/" THEN "C:" ELSE "D:"

\* path.resolve(loader.directory, rest)
PathResolve(platform, dirPath, rest) ==
  IF platform = "posix"
  THEN CASE rest.root = "" -> [drive |-> "", segs |-> NormalizeFrom(dirPath.segs, rest.segs, 1)]
         [] rest.root = "/" -> [drive |-> "", segs |-> NormalizeFrom(<<>>, rest.segs, 1)]
         [] OTHER -> [drive |-> "",
                      segs |-> NormalizeFrom(Append(dirPath.segs, DriveOf(rest.root)), rest.segs, 1)]
  ELSE CASE rest.root = "" -> [drive |-> dirPath.drive,
                               segs |-> NormalizeFrom(dirPath.segs, rest.segs, 1)]
         [] rest.root = "/" -> [drive |-> dirPath.drive,
                                segs |-> NormalizeFrom(<<>>, rest.segs, 1)]
         [] OTHER -> [drive |-> DriveOf(rest.root),
                      segs |-> NormalizeFrom(<<>>, rest.segs, 1)]

RECURSIVE CommonPrefixLen(_, _, _)
CommonPrefixLen(a, b, i) ==
  IF i < Len(a) /\ i < Len(b) /\ a[i + 1] = b[i + 1]
  THEN CommonPrefixLen(a, b, i + 1)
  ELSE i

\* path.relative(from, to), as the segments of the string it returns: one ".."
\* per segment of `from` below the common prefix, then the rest of `to`; on
\* win32 a `to` on another drive comes back whole, drive first
PathRelative(platform, from, to) ==
  IF platform = "win32" /\ from.drive /= to.drive
  THEN <<to.drive>> \o to.segs
  ELSE LET c == CommonPrefixLen(from.segs, to.segs, 0)
       IN  [i \in 1..(Len(from.segs) - c) |-> ".."] \o SubSeq(to.segs, c + 1, Len(to.segs))

\* String.prototype.includes('..') on a path segment
SegmentHasDotDot(seg) == seg \in {"..", "a..b"}

\* relativePath.includes('..')
IncludesDotDot(segs) == \E i \in 1..Len(segs) : SegmentHasDotDot(segs[i])

\* resolveIcon(packageName, url), url = pathPrefix followed by rest
ResolveIconResult(platform, ls, packageName, rest) ==
  IF HasLoader(ls, packageName)
  THEN LET dirPath == DirectoryPath(platform, ls[LoaderIndex(ls, packageName)].directory)
           filePath == PathResolve(platform, dirPath, rest)
       IN  IF ~IncludesDotDot(PathRelative(platform, dirPath, filePath))
           THEN Some(filePath)
           ELSE None
  ELSE None

ResolveIcon(platform, packageName, rest) ==
  /\ iconQuery = NoIconQuery
  /\ iconQuery' = [platform |-> platform, packageName |-> packageName, rest |-> rest,
                   result |-> ResolveIconResult(platform, loaders, packageName, rest)]
  /\ UNCHANGED <<regVars, customDirs, derivation, watch, warned, gmail>>

\* the registry after loadPackage("n8n-nodes-beta") has returned
LoadedBeta == <<LoaderLoadAll(NewLoader(KindPackage, DirBeta), <<>>, <<>>)>>

InitIcons ==
  /\ loaders \in {<<>>, LoadedBeta}
  /\ known = EmptyKnown
  /\ loaded = EmptyLoaded
  /\ types = EmptyTypes
  /\ excludeNodes = <<>>
  /\ includeNodes = <<>>
  /\ postProcessors = <<>>
  /\ tasks = [t \in TaskIds |-> IdleTask]
  /\ inits = 0
  /\ lastCall = NoCall
  /\ observed = None
  /\ builtFrom = <<>>
  /\ customDirs = <<DirCustom>>
  /\ iconQuery = NoIconQuery
  /\ derivation = NoDerivation
  /\ watch = NoWatch
  /\ gmail = NoGmail
  /\ warned = RebuildWarnings(builtFrom)

\* the caller has taken the result
IconReturned ==
  /\ iconQuery /= NoIconQuery
  /\ iconQuery' = NoIconQuery
  /\ UNCHANGED <<regVars, customDirs, derivation, watch, warned, gmail>>

NextIcon ==
  \/ \E platform \in Platforms, packageName \in PackageNames, rest \in UrlRests :
       ResolveIcon(platform, packageName, rest)
  \/ IconReturned

SpecIcon == InitIcons /\ [][NextIcon]_vars

\* ------------------------------------------------- rebuild after rebuild
\* Registries of every make-up: any order of n8n-nodes-base (lazy),
\* n8n-nodes-beta (eager) and one custom directory, rebuilt, with the
\* frontend's hook registered; then packages are unloaded, loaded and
\* reloaded, and postProcessLoaders is called again and again.
RebuildVariants(customs) ==
  {[kind |-> KindLazy, dir |-> DirBase1], [kind |-> KindPackage, dir |-> DirBeta]}
    \cup {[kind |-> KindCustom, dir |-> d] : d \in customs}

RebuildCombos(customs, lens) ==
  {q \in SeqsUpTo(RebuildVariants(customs), Cardinality(PackageNames)) :
     /\ Len(q) \in lens
     /\ \A i, j \in 1..Len(q) : i /= j => PackageNameOf(q[i].dir) /= PackageNameOf(q[j].dir)}

LoadedCombo(q) ==
  [i \in 1..Len(q) |->
     LoaderLoadAll(NewLoader(q[i].kind, q[i].dir), <<E2E_TEST_NODE>>, <<>>)]

RebuiltRegistry(customs, lens) ==
  /\ excludeNodes = <<E2E_TEST_NODE>>
  /\ includeNodes = <<>>
  /\ \E q \in RebuildCombos(customs, lens) :
       /\ builtFrom = LoadedCombo(q)
       /\ loaders = SharedDescriptions(builtFrom, Rebuild(builtFrom).agg.types.nodes)
       /\ known = Rebuild(builtFrom).agg.known
       /\ loaded = Rebuild(builtFrom).agg.loaded
       /\ types = Rebuild(builtFrom).agg.types
  /\ postProcessors = <<"types">>
  /\ tasks = [t \in TaskIds |-> IdleTask]
  /\ inits = 1
  /\ lastCall = NoCall
  /\ observed = None
  /\ customDirs = <<DirCustom>>
  /\ iconQuery = NoIconQuery
  /\ derivation = NoDerivation
  /\ watch = NoWatch
  /\ gmail = NoGmail
  /\ warned = RebuildWarnings(builtFrom)

\* all three packages are there to begin with
InitRebuild == RebuiltRegistry({DirCustom, DirShapes}, {Cardinality(PackageNames)})

NextRebuild ==
  \/ \E t \in TaskIds, name \in PackageNames : HotReloadStart(t, name)
  \/ \E t \in TaskIds : HotReloadResolves(t)
  \/ \E t \in TaskIds, name \in Downloadable : LoadPackage(t, name)
  \/ \E t \in TaskIds : LoadAllResolves(t)
  \/ \E name \in PackageNames : UnloadPackage(name)
  \/ \E t \in TaskIds : CallPostProcessLoaders(t)
  \/ \E t \in TaskIds : HookResolves(t)
  \/ \E t \in TaskIds : HookRejects(t)

SpecRebuild == InitRebuild /\ [][NextRebuild]_vars

\* Registries of one to three packages with the custom directory whose node
\* has an empty option list, rebuilt again after packages were unloaded.
InitInject == RebuiltRegistry({DirBlank}, 0..Cardinality(PackageNames))

NextInject ==
  \/ \E name \in PackageNames : UnloadPackage(name)
  \/ \E t \in TaskIds : CallPostProcessLoaders(t)
  \/ \E t \in TaskIds : HookResolves(t)
  \/ \E t \in TaskIds : HookRejects(t)

SpecInject == InitInject /\ [][NextInject]_vars

\* -------------------------------------------- the derivation pass, re-run
\* The loaders a registry can hold: any order of distinct package names, each
\* from one of the directories and loader classes that can register it.
LoaderVariants ==
  {[kind |-> KindLazy, dir |-> DirBase1], [kind |-> KindLazy, dir |-> DirBase2],
   [kind |-> KindPackage, dir |-> DirBase1],
   [kind |-> KindLazy, dir |-> DirBeta], [kind |-> KindPackage, dir |-> DirBeta],
   [kind |-> KindCustom, dir |-> DirCustom]}

\* NODES_EXCLUDE and NODES_INCLUDE as the configuration can give them (init has
\* pushed the e2e test node on the first, or runs in E2E tests and has not)
ExcludeChoices ==
  {<<>>, <<E2E_TEST_NODE>>,
   <<FullNodeName(PkgBase, "foo"), E2E_TEST_NODE>>,
   <<FullNodeName(PkgBase, ToolName("foo")), E2E_TEST_NODE>>}

IncludeChoices ==
  {<<>>,
   <<FullNodeName(PkgBase, "foo"), FullNodeName(PkgBeta, "bar")>>,
   <<FullNodeName(PkgBase, "foo"), FullNodeName(PkgBase, ToolName("foo"))>>}

LoaderCombos ==
  {q \in SeqsUpTo(LoaderVariants, Cardinality(PackageNames)) :
     \A i, j \in 1..Len(q) : i /= j => PackageNameOf(q[i].dir) /= PackageNameOf(q[j].dir)}

\* postProcessLoaders after its merge loop, before this.createAiTools()
InitDerive ==
  /\ excludeNodes \in ExcludeChoices
  /\ includeNodes \in IncludeChoices
  /\ \E q \in LoaderCombos :
       loaders = [i \in 1..Len(q) |->
                    LoaderLoadAll(NewLoader(q[i].kind, q[i].dir), excludeNodes, includeNodes)]
  /\ known = MergeLoaders(loaders).known
  /\ loaded = MergeLoaders(loaders).loaded
  /\ types = MergeLoaders(loaders).types
  /\ postProcessors = <<>>
  /\ tasks = [t \in TaskIds |-> IdleTask]
  /\ inits = 0
  /\ lastCall = NoCall
  /\ observed = None
  /\ builtFrom = loaders
  /\ customDirs = <<DirCustom>>
  /\ iconQuery = NoIconQuery
  /\ derivation = NoDerivation
  /\ watch = NoWatch
  /\ gmail = NoGmail
  /\ warned = <<>>

\* this.createAiTools(); this.injectCustomApiCallOptions(); on the aggregate as
\* it stands, the first time as postProcessLoaders does and then once more
RunDerivationPass ==
  /\ derivation.runs < 2
  /\ LET r == DerivationPass(Aggregate)
     IN  /\ ~r.threw
         /\ known' = r.agg.known
         /\ loaded' = r.agg.loaded
         /\ types' = r.agg.types
         /\ loaders' = SharedDescriptions(loaders, r.agg.types.nodes)
         /\ derivation' = [runs |-> derivation.runs + 1,
                           first |-> IF derivation.runs = 0 THEN Some(r.agg)
                                     ELSE derivation.first]
         /\ warned' = DerivationWarnings(Aggregate)
  /\ UNCHANGED <<excludeNodes, includeNodes, postProcessors, tasks, inits, lastCall,
                 observed, builtFrom, customDirs, iconQuery, watch, gmail>>

NextDerive == RunDerivationPass

SpecDerive == InitDerive /\ [][NextDerive]_vars

\* ------------------------------------------------------ GmailTrigger.poll
MaxPolls == 3
MaxMessages == 2

\* DateTime.now() in seconds at the first poll; one second passes per poll
Epoch == 10

\* the mailbox behind the API: message id, whether it carries the DRAFT label,
\* internalDate in seconds
Mailbox ==
  {[id |-> "m1", draft |-> FALSE, date |-> 1], [id |-> "m2", draft |-> FALSE, date |-> 2],
   [id |-> "d1", draft |-> TRUE, date |-> 3], [id |-> "d2", draft |-> TRUE, date |-> 4]}

MessageIds == {m.id : m \in Mailbox}

MessageOf(id) == CHOOSE m \in Mailbox : m.id = id

\* what GET /messages answers: distinct messages, id and threadId only
MessageLists ==
  {q \in SeqsUpTo(MessageIds, MaxMessages) :
     \A a, b \in 1..Len(q) : a /= b => q[a] /= q[b]}

\* an entry of responseData: the list entry of a message (fetched FALSE), the
\* message GET /messages/{id} returned, and whether it has been wrapped into
\* {json: ...} by parseRawEmail or returnJsonArray
ListEntry(id) == [id |-> id, fetched |-> FALSE, json |-> FALSE]

\* responseData.splice(i, 1)
Splice(q, i) == SubSeq(q, 1, i - 1) \o SubSeq(q, i + 1, Len(q))

\* getEmailDateAsSeconds: internalDate of a fetched message, startDate for an
\* entry without any date
EmailDate(item, startDate) ==
  IF item.fetched /\ MessageOf(item.id).date /= 0 THEN MessageOf(item.id).date
  ELSE startDate

HasInvalidDate(item) == ~(item.fetched /\ MessageOf(item.id).date /= 0)

RECURSIVE MaxDate(_, _, _)
MaxDate(items, startDate, i) ==
  IF i > Len(items) THEN 0
  ELSE LET rest == MaxDate(items, startDate, i + 1)
           d == EmailDate(items[i], startDate)
       IN  IF d > rest THEN d ELSE rest

IdsOf(items) == [k \in 1..Len(items) |-> items[k].id]

\* Array.from(emailsWithInvalidDate) followed by the ids the reduce adds
NextPollPossibleDuplicates(items, startDate) ==
  LET invalid == SelectSeq(items, HasInvalidDate)
      dated == SelectSeq(items,
                 LAMBDA it : EmailDate(it, startDate) <= MaxDate(items, startDate, 1))
  IN  IdsOf(invalid) \o IdsOf(dated)

\* the poll ends: pc and the bookkeeping of the call
Returned(g, static, result) ==
  [g EXCEPT !.pc = "idle", !.static = static, !.result = result, !.responseData = <<>>,
            !.i = 0]

\* from the end of the try block to the return of poll
Conclude(g, logged) ==
  LET items == g.responseData
      old == g.static.possibleDuplicates
      last == MaxDate(items, g.startDate, 1)
      kept == IF Len(old) > 0
              THEN SelectSeq(items, LAMBDA it : \A k \in 1..Len(old) : old[k] /= it.id)
              ELSE items
  IN  IF Len(items) = 0
      THEN Returned(g, [g.static EXCEPT !.lastTimeChecked = g.endDate],
                    [kind |-> "null", items |-> <<>>, logged |-> logged])
      ELSE IF \E k \in 1..Len(items) : ~items[k].json
      THEN Returned(g, g.static, [kind |-> "throw", items |-> <<>>, logged |-> logged])
      ELSE Returned(g,
             [lastTimeChecked |-> IF last /= 0 THEN last ELSE g.endDate,
              possibleDuplicates |-> NextPollPossibleDuplicates(items, g.startDate)],
             [kind |-> IF Len(kept) > 0 THEN "items" ELSE "null", items |-> kept,
              logged |-> logged])

\* the catch block: rethrown in manual mode and before the first completed
\* poll, logged otherwise
Caught(g) ==
  IF g.manual \/ g.static.lastTimeChecked = 0
  THEN Returned(g, g.static, [kind |-> "throw", items |-> <<>>, logged |-> FALSE])
  ELSE Conclude(g, TRUE)

\* i++ and the loop condition: the next message is requested, or the loop is
\* left for simplifyOutput or for the end of the try block
LoopNext(g) ==
  IF g.i + 1 <= Len(g.responseData) THEN [g EXCEPT !.i = @ + 1, !.pc = "fetch"]
  ELSE IF g.simple /\ Len(g.responseData) > 0 THEN [g EXCEPT !.i = @ + 1, !.pc = "simplify"]
  ELSE Conclude(g, FALSE)

\* history: the ids the poll that just ended handed to the workflow
LastEmitted(g) ==
  IF g.result.kind = "items" THEN {g.result.items[k].id : k \in 1..Len(g.result.items)}
  ELSE {}

GmailFrame == UNCHANGED <<regVars, customDirs, iconQuery, derivation, watch, warned>>

\* poll() up to the await of the list request
PollBegins ==
  /\ gmail.pc = "idle"
  /\ gmail.polls < MaxPolls
  /\ LET now == Epoch + gmail.polls
     IN  gmail' = [gmail EXCEPT
           !.polls = @ + 1,
           !.pc = "list",
           !.startDate = IF gmail.static.lastTimeChecked /= 0
                         THEN gmail.static.lastTimeChecked ELSE now,
           !.endDate = now,
           !.received = <<>>, !.responseData = <<>>, !.i = 0,
           !.fetched = <<>>, !.parsed = <<>>, !.result = NoResult,
           !.previous = IF Len(gmail.received) > 0 THEN LastEmitted(gmail) ELSE @]
  /\ GmailFrame

\* the list request resolves (at most one message in manual mode, maxResults
\* 1): nothing to do for an empty list, else the first message is requested
ListResolves(list) ==
  /\ gmail.pc = "list"
  /\ gmail.manual => Len(list) <= 1
  /\ LET g == [gmail EXCEPT !.received = list,
                            !.responseData = [k \in 1..Len(list) |-> ListEntry(list[k])]]
     IN  gmail' = IF Len(list) = 0
                  THEN Returned(g, [g.static EXCEPT !.lastTimeChecked = g.endDate],
                                [kind |-> "null", items |-> <<>>, logged |-> FALSE])
                  ELSE [g EXCEPT !.i = 1, !.pc = "fetch"]
  /\ GmailFrame

\* a request of the try block rejects
ApiRejects ==
  /\ gmail.pc \in {"list", "fetch", "simplify"}
  /\ gmail' = Caught(gmail)
  /\ GmailFrame

\* GET /messages/{id} resolves: the entry is replaced by the message, a draft
\* is spliced out, and parseRawEmail is called on responseData[i] or the loop
\* goes on
FetchResolves ==
  /\ gmail.pc = "fetch"
  /\ LET id == gmail.responseData[gmail.i].id
         got == [gmail.responseData EXCEPT ![gmail.i] = [@ EXCEPT !.fetched = TRUE]]
         left == IF ~gmail.includeDrafts /\ MessageOf(id).draft
                 THEN Splice(got, gmail.i) ELSE got
         g == [gmail EXCEPT !.responseData = left, !.fetched = Append(@, id)]
     IN  gmail' = IF ~gmail.simple THEN [g EXCEPT !.pc = "parse"] ELSE LoopNext(g)
  /\ GmailFrame

\* parseRawEmail settles: it decodes the raw body of a fetched message and
\* throws on anything else (a list entry, or undefined past the end)
ParseSettles ==
  /\ gmail.pc = "parse"
  /\ gmail' =
       IF gmail.i <= Len(gmail.responseData) /\ gmail.responseData[gmail.i].fetched
       THEN LoopNext([gmail EXCEPT
              !.responseData[gmail.i] = [@ EXCEPT !.json = TRUE],
              !.parsed = Append(@, gmail.responseData[gmail.i].id)])
       ELSE Caught(gmail)
  /\ GmailFrame

\* simplifyOutput resolves and returnJsonArray wraps every entry
SimplifyResolves ==
  /\ gmail.pc = "simplify"
  /\ gmail' = Conclude([gmail EXCEPT
                 !.responseData = [k \in 1..Len(@) |-> [@[k] EXCEPT !.json = TRUE]]], FALSE)
  /\ GmailFrame

\* a Gmail Trigger node with any setting of Simplify, Include Drafts and mode,
\* before its first poll; nothing is loaded into the registry
InitGmail ==
  /\ loaders = <<>>
  /\ known = EmptyKnown
  /\ loaded = EmptyLoaded
  /\ types = EmptyTypes
  /\ excludeNodes = <<>>
  /\ includeNodes = <<>>
  /\ postProcessors = <<>>
  /\ tasks = [t \in TaskIds |-> IdleTask]
  /\ inits = 0
  /\ lastCall = NoCall
  /\ observed = None
  /\ builtFrom = <<>>
  /\ customDirs = <<DirCustom>>
  /\ iconQuery = NoIconQuery
  /\ derivation = NoDerivation
  /\ watch = NoWatch
  /\ warned = <<>>
  /\ \E simple \in BOOLEAN, includeDrafts \in BOOLEAN, manual \in BOOLEAN :
       gmail = [NoGmail EXCEPT !.simple = simple, !.includeDrafts = includeDrafts,
                               !.manual = manual, !.pc = "idle"]

NextGmail ==
  \/ PollBegins
  \/ \E list \in MessageLists : ListResolves(list)
  \/ ApiRejects
  \/ FetchResolves
  \/ ParseSettles
  \/ SimplifyResolves

SpecGmail == InitGmail /\ [][NextGmail]_vars

\* ---------------------------------------------------------------- claims
IsPathPrefix(a, b) == Len(a) <= Len(b) /\ SubSeq(b, 1, Len(a)) = a

\* filePath lies in the directory (or is the directory)
InsideDirectory(dirPath, filePath) ==
  filePath.drive = dirPath.drive /\ IsPathPrefix(dirPath.segs, filePath.segs)

IconAnswered == iconQuery /= NoIconQuery

IconLoaderDirectory ==
  DirectoryPath(iconQuery.platform, loaders[LoaderIndex(loaders, iconQuery.packageName)].directory)

\* C5: resolveIcon returns no result or a path inside the directory of the
\* package's active loader; a package without an active loader gets no result,
\* and so does a remainder that climbs out of the directory with "..".
C5_IconConfined ==
  IconAnswered =>
    /\ ~HasLoader(loaders, iconQuery.packageName) => iconQuery.result = None
    /\ IsSome(iconQuery.result) => InsideDirectory(IconLoaderDirectory, Val(iconQuery.result))

\* C5 on POSIX alone
C5_IconConfinedPosix ==
  (IconAnswered /\ iconQuery.platform = "posix") =>
    /\ ~HasLoader(loaders, iconQuery.packageName) => iconQuery.result = None
    /\ IsSome(iconQuery.result) => InsideDirectory(IconLoaderDirectory, Val(iconQuery.result))

\* how often the custom-call option occurs in an option list
RECURSIVE CustomCount(_, _)
CustomCount(options, i) ==
  IF i > Len(options) THEN 0
  ELSE (IF options[i].name = CUSTOM_API_CALL_NAME THEN 1 ELSE 0) + CustomCount(options, i + 1)

UsableNames(nodes) ==
  LET usable == SelectSeq(nodes, LAMBDA n : n.usableAsTool = TRUE)
  IN  [i \in 1..Len(usable) |-> usable[i].name]

RECURSIVE Occurrences(_, _, _)
Occurrences(q, x, i) ==
  IF i > Len(q) THEN 0 ELSE (IF q[i] = x THEN 1 ELSE 0) + Occurrences(q, x, i + 1)

FirstRun == Val(derivation.first)

\* C4 as claimed: a second run of the derivation pass on the aggregate the
\* first run produced yields the same descriptions, known nodes and
\* credential supportedNodes.
C4_DerivationIdempotent ==
  derivation.runs = 2 =>
    /\ types.nodes = FirstRun.types.nodes
    /\ known.nodes = FirstRun.known.nodes
    /\ known.credentials = FirstRun.known.credentials

\* C4 amended: the second run leaves every description already in the list
\* (so every option list: no second custom-call option), the credential
\* descriptions, the loaded types and the known-nodes map as they were, and
\* appends exactly one more tool variant per usableAsTool node and one more
\* copy of the variant's name to each supportedNodes list naming the node.
C4_SecondRunOnlyAppendsTools ==
  derivation.runs = 2 =>
    LET before == FirstRun.types.nodes
        usable == UsableNames(before)
    IN  /\ Len(types.nodes) = Len(before) + Len(usable)
        /\ SubSeq(types.nodes, 1, Len(before)) = before
        /\ \A i \in 1..Len(usable) :
             /\ types.nodes[Len(before) + i].name = usable[i] \o "Tool"
             /\ types.nodes[Len(before) + i].usableAsTool = FALSE
        /\ \A i \in 1..Len(types.nodes) : \A k \in 1..Len(types.nodes[i].properties) :
             LET p == types.nodes[i].properties[k]
             IN  IsSome(p.options) => CustomCount(Val(p.options), 1) <= 1
        /\ types.credentials = FirstRun.types.credentials
        /\ loaded = FirstRun.loaded
        /\ known.nodes = FirstRun.known.nodes
        /\ DOMAIN known.credentials = DOMAIN FirstRun.known.credentials
        /\ \A c \in DOMAIN known.credentials :
             LET old == FirstRun.known.credentials[c].supportedNodes
                 new == known.credentials[c].supportedNodes
             IN  /\ IsSome(new) = IsSome(old)
                 /\ IsSome(old) =>
                      /\ IsPathPrefix(Val(old), Val(new))
                      /\ \A i \in 1..Len(usable) :
                           Occurrences(Val(new), usable[i] \o "Tool", 1) =
                             Occurrences(Val(old), usable[i] \o "Tool", 1) +
                             (IF usable[i] \in SeqToSet(Val(old)) THEN 1 ELSE 0)

\* C4 witness: the pass has run twice over a tool-usable node that carries the
\* custom-call option and is named by a credential's supportedNodes
C4_Witness ==
  /\ derivation.runs = 2
  /\ \E i \in 1..Len(types.nodes) :
       /\ types.nodes[i].usableAsTool = TRUE
       /\ \E k \in 1..Len(types.nodes[i].properties) :
            /\ IsSome(types.nodes[i].properties[k].options)
            /\ CustomCount(Val(types.nodes[i].properties[k].options), 1) = 1
       /\ \E c \in DOMAIN known.credentials :
            Includes(known.credentials[c].supportedNodes, types.nodes[i].name)

\* ------------------------------------------------------------------ C1
UniqueNames ==
  \A i, j \in 1..Len(loaders) :
    i /= j => loaders[i].packageName /= loaders[j].packageName

\* the step reports a duplicate-package error of task t: init() logged it and
\* went on, or the call was rejected with it
DuplicateReported(t) ==
  \/ lastCall'.result = ErrDuplicate
  \/ /\ Len(tasks'[t].log) = Len(tasks[t].log) + 1
     /\ tasks'[t].log[Len(tasks'[t].log)].error = ErrDuplicate

\* C1: no two active loaders ever share a package name, and when
\* runDirectoryLoader (from init or loadPackage) is run for a name that has an
\* active loader, loadAll is not started, a duplicate-package error is
\* reported, and this.loaders with every loader's collections stays as it was.
C1_DuplicateRefused ==
  /\ []UniqueNames
  /\ [][\A t \in TaskIds :
          /\ \A name \in Downloadable :
               (LoadPackage(t, name) /\ HasLoader(loaders, name)) =>
                 /\ loaders' = loaders
                 /\ tasks'[t] = IdleTask
                 /\ lastCall'.op = "loadPackage"
                 /\ lastCall'.arg = name
                 /\ lastCall'.result = ErrDuplicate
          /\ (/\ InitRunDirectoryLoader(t)
              /\ HasLoader(loaders, PackageNameOf(InitPlan[tasks[t].idx].dir))) =>
                 /\ loaders' = loaders
                 /\ tasks'[t].pc /= "loading"
                 /\ DuplicateReported(t)]_vars

\* C1 witness: loadPackage was refused for a name whose loader is still there
C1_Witness ==
  /\ lastCall.op = "loadPackage"
  /\ lastCall.result = ErrDuplicate
  /\ HasLoader(loaders, lastCall.arg)
  /\ loaders[LoaderIndex(loaders, lastCall.arg)].types.nodes /= <<>>

\* ------------------------------------------------------------------ C2
NodeNames(nodes) == {nodes[i].name : i \in 1..Len(nodes)}

ToolNames(nodes) ==
  {nodes[i].name \o "Tool" : i \in {k \in 1..Len(nodes) : nodes[k].usableAsTool = TRUE}}

RECURSIVE DescriptionCount(_, _)
DescriptionCount(ls, i) ==
  IF i > Len(ls) THEN 0 ELSE Len(ls[i].types.nodes) + DescriptionCount(ls, i + 1)

\* some credential the node names is proxy-capable in the credential list
ProxyCapable(creds, node) ==
  /\ IsSome(node.credentials)
  /\ \E c \in SeqToSet(Val(node.credentials)) : \E i \in 1..Len(creds) :
       /\ creds[i].name = c
       /\ \/ IsSome(creds[i].authenticate)
          \/ /\ IsSome(creds[i].extends)
             /\ SeqToSet(Val(creds[i].extends)) \cap ProxyParents /= {}

\* a is a whole rebuild over the loaders ls: nothing cleared, nothing left
\* out of the merge, every usableAsTool node with its tool variant, every
\* proxy-capable node with the custom-call option last in its
\* resource/operation lists
CompleteSnapshot(a, ls) ==
  LET idx == 1..Len(ls)
      tools == ToolNames(a.types.nodes)
  IN  /\ DOMAIN a.known.nodes = UNION {DOMAIN ls[i].known.nodes : i \in idx} \cup tools
      /\ DOMAIN a.known.credentials = UNION {DOMAIN ls[i].known.credentials : i \in idx}
      /\ DOMAIN a.loaded.nodes = UNION {DOMAIN ls[i].nodeTypes : i \in idx}
      /\ DOMAIN a.loaded.credentials = UNION {DOMAIN ls[i].credentialTypes : i \in idx}
      /\ NodeNames(a.types.nodes) = UNION {NodeNames(ls[i].types.nodes) : i \in idx} \cup tools
      /\ Len(a.types.nodes) = DescriptionCount(ls, 1) + Cardinality(tools)
      /\ NodeNames(a.types.credentials) = UNION {NodeNames(ls[i].types.credentials) : i \in idx}
      /\ \A i \in 1..Len(a.types.nodes) :
           ProxyCapable(a.types.credentials, a.types.nodes[i]) =>
             \A k \in 1..Len(a.types.nodes[i].properties) :
               LET p == a.types.nodes[i].properties[k]
               IN  (p.name \in {"resource", "operation"} /\ IsSome(p.options)) =>
                     Val(p.options)[Len(Val(p.options))] = CustomApiCallOption

C3_LoadedAreKnown ==
  /\ DOMAIN loaded.nodes \subseteq DOMAIN known.nodes
  /\ DOMAIN loaded.credentials \subseteq DOMAIN known.credentials

\* C3 witness: a hot reload has rebuilt a registry that holds eagerly loaded
\* node and credential types
C3_Witness ==
  /\ lastCall.op = "reload"
  /\ lastCall.result = Ok
  /\ DOMAIN loaded.nodes /= {}
  /\ DOMAIN loaded.credentials /= {}
  /\ DOMAIN known.nodes \ DOMAIN loaded.nodes /= {}

\* ------------------------------------------------------------------ C6
DirsOf(name) == {d \in Dirs : PackageNameOf(d) = name}

\* the type names a package can contribute: its nodes, qualified, their tool
\* variants, and its credentials
NodeKeysOf(name) ==
  UNION {UNION {{FullNodeName(name, DeclaredNodes(d)[i].name),
                 FullNodeName(name, DeclaredNodes(d)[i].name) \o "Tool"} :
                  i \in 1..Len(DeclaredNodes(d))} : d \in DirsOf(name)}

CredentialKeysOf(name) ==
  UNION {NodeNames(DeclaredCredentials(d)) : d \in DirsOf(name)}

\* the aggregate holds a known entry, a loaded type or a description of the
\* package
HasTypesOf(name, a) ==
  \/ DOMAIN a.known.nodes \cap NodeKeysOf(name) /= {}
  \/ DOMAIN a.loaded.nodes \cap NodeKeysOf(name) /= {}
  \/ NodeNames(a.types.nodes) \cap NodeKeysOf(name) /= {}
  \/ DOMAIN a.known.credentials \cap CredentialKeysOf(name) /= {}
  \/ DOMAIN a.loaded.credentials \cap CredentialKeysOf(name) /= {}
  \/ NodeNames(a.types.credentials) \cap CredentialKeysOf(name) /= {}

\* every type of the loader is in the aggregate
HasAllTypesOf(l, a) ==
  /\ DOMAIN l.known.nodes \subseteq DOMAIN a.known.nodes
  /\ DOMAIN l.known.credentials \subseteq DOMAIN a.known.credentials
  /\ DOMAIN l.nodeTypes \subseteq DOMAIN a.loaded.nodes
  /\ NodeNames(l.types.nodes) \subseteq NodeNames(a.types.nodes)

\* C6 as claimed: when unloadPackage(name) returns nothing of the package is
\* left in the aggregate, and when loadPackage(name) returns successfully the
\* package's types are in the aggregate.
C6_RebuiltOnReturn ==
  /\ lastCall.op = "unloadPackage" => ~HasTypesOf(lastCall.arg, Aggregate)
  /\ (lastCall.op = "loadPackage" /\ lastCall.result = Ok) =>
       /\ HasLoader(loaders, lastCall.arg)
       /\ HasAllTypesOf(loaders[LoaderIndex(loaders, lastCall.arg)], Aggregate)

\* C6 amended: loadPackage and unloadPackage change this.loaders only (after
\* unloadPackage(name) no loader has the name, after a successful
\* loadPackage(name) a loaded one has) and leave known/loaded/types as they
\* were; the aggregate follows at the next postProcessLoaders, after which it
\* holds all types of every loader merged and nothing of any other package.
C6_AggregateFollowsAtNextRebuild ==
  /\ [][lastCall'.op \in {"loadPackage", "unloadPackage"} => Aggregate' = Aggregate]_vars
  /\ [](lastCall.op = "unloadPackage" => ~HasLoader(loaders, lastCall.arg))
  /\ []((lastCall.op = "loadPackage" /\ lastCall.result = Ok) =>
          /\ HasLoader(loaders, lastCall.arg)
          /\ loaders[LoaderIndex(loaders, lastCall.arg)].types.nodes /= <<>>)
  /\ [](\A name \in PackageNames :
          IF HasLoader(builtFrom, name)
          THEN HasAllTypesOf(builtFrom[LoaderIndex(builtFrom, name)], Aggregate)
          ELSE ~HasTypesOf(name, Aggregate))

\* C6 witness: unloadPackage has returned and the aggregate still holds the
\* package's types
C6_Witness ==
  /\ lastCall.op = "unloadPackage"
  /\ ~HasLoader(loaders, lastCall.arg)
  /\ HasTypesOf(lastCall.arg, Aggregate)

\* ------------------------------------------------------------------ C7
\* C7 as claimed: a failing hook is not raised to the caller of the rebuild.
C7_HookFailureContained == lastCall.result /= ErrHook

\* C7 amended: when a hook fails the rebuilt collections stay published, but
\* nothing catches the failure: postProcessLoaders rejects with it, so does
\* the init or reload that awaited it, and the hooks registered after the
\* failed one are not run (a rebuild reaches a hook only after every earlier
\* hook has resolved).
C7_HookFailureRejectsCall ==
  /\ [](\A t \in TaskIds : tasks[t].pc = "hook" =>
          \A j \in 1..(tasks[t].hook - 1) :
            ("done:" \o postProcessors[j]) \in SeqToSet(tasks[t].trace))
  /\ [][\A t \in TaskIds : (HookRejects(t) /\ tasks[t].pc = "hook") =>
          /\ Aggregate' = Aggregate
          /\ loaders' = loaders
          /\ tasks'[t] = IdleTask
          /\ lastCall'.op = tasks[t].op
          /\ lastCall'.result = ErrHook]_vars
  /\ [](lastCall.result = ErrHook => CompleteSnapshot(Aggregate, builtFrom))

\* C7 witness: init() was rejected with the failure of a hook, the rebuilt
\* registry in place
C7_Witness ==
  /\ lastCall.op = "init"
  /\ lastCall.result = ErrHook
  /\ types.nodes /= <<>>
  /\ Len(postProcessors) = MaxHooks

\* ------------------------------------------------------------------ C8
\* start of the k-th hook, after start and end of each one before it
HookEvents(pp, k) ==
  [n \in 1..(2 * k - 1) |->
     IF n % 2 = 1 THEN "start:" \o pp[(n + 1) \div 2] ELSE "done:" \o pp[n \div 2]]

\* C8: a rebuild that waits on its k-th hook has merged and run both
\* derivation passes (the registry is whole), then started the hooks in the
\* order of addPostProcessor, each one only after the one before it had
\* resolved.
C8_HooksInRegistrationOrder ==
  \A t \in TaskIds : tasks[t].pc = "hook" =>
    /\ tasks[t].hook \in 1..Len(postProcessors)
    /\ tasks[t].trace =
         <<"merge", "createAiTools", "injectCustomApiCallOptions">> \o
         HookEvents(postProcessors, tasks[t].hook)
    /\ CompleteSnapshot(Aggregate, builtFrom)

\* C8 witness: the rebuild of init() waits on the second of two hooks
C8_Witness ==
  \E t \in TaskIds :
    /\ tasks[t].op = "init"
    /\ tasks[t].pc = "hook"
    /\ tasks[t].hook = MaxHooks
    /\ types.nodes /= <<>>

\* ------------------------------------------------------------------ C9
\* C9 as claimed: init() never ends with a package load failure.
C9_InitSurvivesLoadFailure ==
  lastCall.op = "init" => lastCall.result /= ErrLoad

\* ----------------------------------------------------------------- C10
\* C10 as claimed: init() never logs a duplicate-package error and goes on.
C10_DuplicateFatal ==
  /\ \A t \in TaskIds : \A i \in 1..Len(tasks[t].log) : tasks[t].log[i].error /= ErrDuplicate
  /\ \A i \in 1..Len(lastCall.log) : lastCall.log[i].error /= ErrDuplicate

\* C10 amended: a duplicate is fatal to loadPackage and, inside init(), to the
\* loading of the custom directories; a duplicate found by init() in a
\* node_modules directory is logged and init() goes on with the next
\* directory.  The second copy is not added in any of the cases.
C10_DuplicateFatalOutsideNodeModules ==
  [][\A t \in TaskIds :
       /\ \A name \in Downloadable :
            (LoadPackage(t, name) /\ HasLoader(loaders, name)) =>
              /\ loaders' = loaders
              /\ tasks'[t] = IdleTask
              /\ lastCall'.op = "loadPackage"
              /\ lastCall'.result = ErrDuplicate
       /\ (/\ InitRunDirectoryLoader(t)
           /\ HasLoader(loaders, PackageNameOf(InitPlan[tasks[t].idx].dir))) =>
              /\ loaders' = loaders
              /\ IF tasks[t].idx <= Len(NodeModulesPlan)
                 THEN /\ tasks'[t].op = "init"
                      /\ tasks'[t].pc \in {"check", "rebuild"}
                      /\ tasks'[t].log =
                           Append(tasks[t].log, [dir |-> InitPlan[tasks[t].idx].dir,
                                                 error |-> ErrDuplicate])
                      /\ lastCall' = NoCall
                 ELSE /\ tasks'[t] = IdleTask
                      /\ lastCall'.op = "init"
                      /\ lastCall'.result = ErrDuplicate]_vars

\* C10 witness: init() logged the second copy of n8n-nodes-base and went on,
\* then was rejected by the duplicate among the custom directories
C10_Witness ==
  /\ lastCall.op = "init"
  /\ lastCall.result = ErrDuplicate
  /\ \E i \in 1..Len(lastCall.log) :
       /\ lastCall.log[i].error = ErrDuplicate
       /\ lastCall.log[i].dir = DirBase2
  /\ Len(loaders) = Cardinality(PackageNames)

\* ----------------------------------------------------------------- C13
\* every loader but the one named is the same after the step
OthersUnchanged(name) ==
  /\ Len(loaders') = Len(loaders)
  /\ \A i \in 1..Len(loaders) :
       loaders[i].packageName /= name => loaders'[i] = loaders[i]

\* the description is the same but for custom-call options appended to its
\* option lists
SameButInjected(after, before) ==
  /\ [after EXCEPT !.properties = before.properties] = before
  /\ Len(after.properties) = Len(before.properties)
  /\ \A k \in 1..Len(before.properties) :
       \/ after.properties[k] = before.properties[k]
       \/ /\ IsSome(before.properties[k].options)
          /\ after.properties[k] =
               [before.properties[k] EXCEPT
                  !.options = Some(Append(Val(@), CustomApiCallOption))]

\* every loader but the one named keeps its collections, but for custom-call
\* options the injection of the rebuild appended to its descriptions
OthersKeepCollections(name) ==
  /\ Len(loaders') = Len(loaders)
  /\ \A i \in 1..Len(loaders) :
       loaders[i].packageName /= name =>
         /\ [loaders'[i] EXCEPT !.types.nodes = loaders[i].types.nodes] = loaders[i]
         /\ Len(loaders'[i].types.nodes) = Len(loaders[i].types.nodes)
         /\ \A k \in 1..Len(loaders[i].types.nodes) :
              SameButInjected(loaders'[i].types.nodes[k], loaders[i].types.nodes[k])

\* the reloader starts: reset of the changed loader alone, nothing rebuilt,
\* nothing notified
CycleResets ==
  \A t \in TaskIds, name \in PackageNames :
    HotReloadStart(t, name) =>
      /\ HasLoader(loaders', name)
      /\ loaders'[LoaderIndex(loaders', name)] =
           LoaderReset(loaders[LoaderIndex(loaders, name)])
      /\ OthersUnchanged(name)
      /\ Aggregate' = Aggregate
      /\ ~lastCall'.broadcast

\* loadAll of the changed loader has finished when the rebuild runs: the
\* rebuild merges every active loader, the changed one as a clean load
CycleLoadsThenRebuilds ==
  \A t \in TaskIds :
    HotReloadResolves(t) =>
      LET name == tasks[t].arg
          held == Val(tasks[t].loader)
      IN  /\ {builtFrom'[i].packageName : i \in 1..Len(builtFrom')} =
               {loaders[i].packageName : i \in 1..Len(loaders)}
          /\ StillRegistered(loaders, held) =>
               builtFrom'[LoaderIndex(builtFrom', name)] =
                 LoaderLoadAll(NewLoader(held.kind, held.directory),
                               excludeNodes, includeNodes)
          /\ CompleteSnapshot(Aggregate', builtFrom')
          /\ lastCall'.broadcast => Len(postProcessors) = 0

\* the notification is sent once, in the step in which the cycle returns, and
\* a cycle returns successfully only when its last hook has resolved
CycleNotifiesLast ==
  /\ lastCall'.broadcast =>
       /\ lastCall'.op = "reload"
       /\ lastCall'.result = Ok
       /\ CompleteSnapshot(Aggregate', builtFrom')
       /\ \E t \in TaskIds :
            /\ tasks[t].op \in {"reload"}
            /\ tasks'[t] = IdleTask
            /\ tasks[t].pc = "hook" =>
                 /\ tasks[t].hook = Len(postProcessors)
                 /\ HookResolves(t)
  /\ (lastCall'.op = "reload" /\ lastCall'.result = Ok) => lastCall'.broadcast
  /\ \A t \in TaskIds :
       (tasks[t].op = "reload" /\ tasks'[t].op = "reload" /\ tasks'[t] /= tasks[t]) =>
         ~lastCall'.broadcast

C16_UnloadResetsThenRemoves ==
  [][\A name \in PackageNames :
       UnloadPackage(name) =>
         /\ lastCall'.result = Ok
         /\ Aggregate' = Aggregate
         /\ tasks' = tasks
         /\ IF \E i \in 1..Len(loaders) : loaders[i].packageName = name
            THEN /\ loaders' = SelectSeq(loaders, LAMBDA l : l.packageName /= name)
                 /\ Len(loaders') = Len(loaders) - 1
                 /\ IsSome(lastCall'.loader)
                 /\ Val(lastCall'.loader).packageName = name
                 /\ Val(lastCall'.loader).known = [nodes |-> <<>>, credentials |-> <<>>]
                 /\ Val(lastCall'.loader).nodeTypes = <<>>
                 /\ Val(lastCall'.loader).credentialTypes = <<>>
                 /\ Val(lastCall'.loader).types = [nodes |-> <<>>, credentials |-> <<>>]
            ELSE /\ loaders' = loaders
                 /\ lastCall'.loader = None]_vars

\* C16 witness: unloadPackage has let go of a loader that had types
C16_Witness ==
  /\ lastCall.op = "unloadPackage"
  /\ IsSome(lastCall.loader)
  /\ HasLoader(builtFrom, lastCall.arg)
  /\ builtFrom[LoaderIndex(builtFrom, lastCall.arg)].types.nodes /= <<>>
  /\ Len(loaders) < Len(builtFrom)

\* ----------------------------------------------------------------- C20
\* C20 as claimed: when a reload cycle has ended with a failure of loadAll,
\* the aggregate holds nothing of the package and all types of every other
\* active loader.
C20_ReloadFailureDegrades ==
  (lastCall.op = "reload" /\ lastCall.result = ErrLoad) =>
    /\ ~HasTypesOf(lastCall.arg, Aggregate)
    /\ \A i \in 1..Len(loaders) : HasAllTypesOf(loaders[i], Aggregate)

\* ----------------------------------------------------------------- C11
\* the log shows that init() found the package of every node_modules
\* directory loaded already
FoundAllLoaded(log) ==
  /\ Len(log) = Len(NodeModulesPlan)
  /\ \A i \in 1..Len(log) : log[i].error = ErrDuplicate

\* C11 as claimed: init() called on a registry that is initialised already
\* completes without error and leaves the loader set, the exclude list and
\* the aggregate as the first call left them.
C11_InitIdempotent ==
  (lastCall.op = "init" /\ FoundAllLoaded(lastCall.log)) =>
    /\ lastCall.result = Ok
    /\ excludeNodes = <<E2E_TEST_NODE>>
    /\ {loaders[i].packageName : i \in 1..Len(loaders)} =
         {InitializedLoaders[i].packageName : i \in 1..Len(InitializedLoaders)}
    /\ Aggregate = Rebuild(InitializedLoaders).agg

\* C11 amended: init() called again is not idempotent.  It appends the e2e
\* test node to the exclude list once more; for a node_modules directory whose
\* package has an active loader it logs the duplicate-package error and goes
\* on; at a custom directory whose package has an active loader it is rejected
\* with the duplicate-package error; none of these steps changes the loader
\* set or the aggregate.
C11_SecondInitRejected ==
  [][\A t \in TaskIds :
       /\ InitStart(t) =>
            /\ excludeNodes' = Append(excludeNodes, E2E_TEST_NODE)
            /\ Len(excludeNodes') = inits' + 1
            /\ loaders' = loaders
            /\ Aggregate' = Aggregate
       /\ (/\ InitRunDirectoryLoader(t)
           /\ \E i \in 1..Len(loaders) :
                loaders[i].packageName =
                  NewLoader(InitPlan[tasks[t].idx].kind, InitPlan[tasks[t].idx].dir).packageName) =>
            /\ loaders' = loaders
            /\ Aggregate' = Aggregate
            /\ IF InitPlan[tasks[t].idx].kind = KindCustom
               THEN /\ tasks'[t] = IdleTask
                    /\ lastCall'.op = "init"
                    /\ lastCall'.result = ErrDuplicate
                    /\ lastCall'.log = tasks[t].log
               ELSE /\ tasks'[t].op = "init"
                    /\ tasks'[t].log =
                         Append(tasks[t].log,
                                [dir |-> InitPlan[tasks[t].idx].dir, error |-> ErrDuplicate])
                    /\ lastCall' = NoCall]_vars

\* C11 witness: the second init() has been rejected at the custom directory
\* after logging a duplicate for every node_modules directory
C11_Witness ==
  /\ lastCall.op = "init"
  /\ lastCall.result = ErrDuplicate
  /\ FoundAllLoaded(lastCall.log)
  /\ excludeNodes = <<E2E_TEST_NODE, E2E_TEST_NODE>>
  /\ Len(loaders) = Len(InitializedLoaders)
  /\ Aggregate = Rebuild(InitializedLoaders).agg

\* ----------------------------------------------------------------- C14
\* the first description of that name in the list (None: there is none)
DescriptionOf(nodes, name) ==
  IF \E i \in 1..Len(nodes) : nodes[i].name = name
  THEN Some(nodes[CHOOSE i \in 1..Len(nodes) :
                    /\ nodes[i].name = name
                    /\ \A j \in 1..(i - 1) : nodes[j].name /= name])
  ELSE None

\* the option list of the resource parameter of the description ends with the
\* custom-call option
EndsWithCustomCall(description) ==
  \E k \in 1..Len(description.properties) :
    /\ description.properties[k].name = "resource"
    /\ IsSome(description.properties[k].options)
    /\ Val(description.properties[k].options)
         [Len(Val(description.properties[k].options))] = CustomApiCallOption

FooName == FullNodeName(PkgBase, "foo")
FooToolName == FullNodeName(PkgBase, ToolName("foo"))

\* the scenario: n8n-nodes-base loaded eagerly with its tool-usable node foo
\* kept by the lists, n8n-nodes-beta loaded lazily with its credential barApi
\* (extends oAuth2Api, supportedNodes [foo]), and the registry rebuilt once
ScenarioRebuilt ==
  /\ derivation.runs = 1
  /\ Kept(FooName, excludeNodes, includeNodes)
  /\ \E i \in 1..Len(builtFrom) :
       builtFrom[i].packageName = PkgBase /\ builtFrom[i].kind = KindPackage
  /\ \E i \in 1..Len(builtFrom) :
       builtFrom[i].packageName = PkgBeta /\ builtFrom[i].kind = KindLazy

\* foo, its tool variant and the injected option are in the aggregate
FooAndToolDerived ==
  /\ FooName \in DOMAIN known.nodes
  /\ FooName \in DOMAIN loaded.nodes
  /\ IsSome(DescriptionOf(types.nodes, FooName))
  /\ FooToolName \in DOMAIN known.nodes
  /\ known.nodes[FooToolName] = known.nodes[FooName]
  /\ IsSome(DescriptionOf(types.nodes, FooToolName))
  /\ Val(DescriptionOf(types.nodes, FooToolName)) =
       ConvertNodeToAiTool(
         [Val(DescriptionOf(types.nodes, FooName)) EXCEPT
            !.properties = Val(DescriptionOf(types.nodes, FooToolName)).properties])
  /\ EndsWithCustomCall(Val(DescriptionOf(types.nodes, FooName)))
  /\ "barApi" \in DOMAIN known.credentials
  /\ IsSome(known.credentials["barApi"].supportedNodes)

\* C14 as claimed: in the scenario the aggregate holds foo, its derived tool
\* variant, a barApi known entry whose supportedNodes holds both the type name
\* of foo and the name of the tool, and foo's resource option list ends with
\* the custom-call option.
C14_EndToEnd ==
  ScenarioRebuilt =>
    /\ FooAndToolDerived
    /\ Includes(known.credentials["barApi"].supportedNodes, FooName)
    /\ Includes(known.credentials["barApi"].supportedNodes, FooToolName)

\* C14 amended: in the scenario the aggregate holds foo, its derived tool
\* variant and the injected option, but the supportedNodes of barApi are
\* qualified with the package of the credential, n8n-nodes-beta: they hold
\* neither the type name of foo nor the name of the tool.  A credential of
\* foo's own package that lists foo (plainApi) has both.
C14_EndToEndOwnPackage ==
  ScenarioRebuilt =>
    /\ FooAndToolDerived
    /\ known.credentials["barApi"].supportedNodes = Some(<<Qualify(PkgBeta, "foo")>>)
    /\ ~Includes(known.credentials["barApi"].supportedNodes, FooName)
    /\ ~Includes(known.credentials["barApi"].supportedNodes, FooToolName)
    /\ "plainApi" \in DOMAIN known.credentials
    /\ known.credentials["plainApi"].supportedNodes = Some(<<FooName, FooToolName>>)

\* C14 witness: the scenario, rebuilt, with the tool and the option in place
C14_Witness ==
  /\ ScenarioRebuilt
  /\ Len(builtFrom) = 2
  /\ IsSome(DescriptionOf(types.nodes, FooToolName))
  /\ EndsWithCustomCall(Val(DescriptionOf(types.nodes, FooName)))

\* ----------------------------------------------------------------- C15
\* a type name of the registry: known entry, loaded type or description
InRegistry(name) ==
  \/ name \in DOMAIN known.nodes
  \/ name \in DOMAIN loaded.nodes
  \/ IsSome(DescriptionOf(types.nodes, name))

\* C15 as claimed: a type name in both the exclude and the include list is
\* absent from the rebuilt registry.
C15_ExcludeWins ==
  derivation.runs = 1 =>
    \A name \in SeqToSet(excludeNodes) \cap SeqToSet(includeNodes) : ~InRegistry(name)

\* ----------------------------------------------------------------- C18
\* C18 as claimed: of two overlapping loadPackage calls for one name, one
\* registers its loader and the other fails with the duplicate-package error:
\* a call that ends with its loader registered found no loader under the name,
\* so that a registered loader is never replaced.
C18_NoSilentReplace ==
  [][\A t \in RaceTaskIds :
       (/\ tasks[t].op = "loadPackage"
        /\ tasks'[t] = IdleTask
        /\ lastCall'.op = "loadPackage"
        /\ lastCall'.result = Ok) =>
         ~(\E i \in 1..Len(loaders) : loaders[i].packageName = tasks[t].arg)]_vars

\* ----------------------------------------------------------------- C19
\* the reload cycles in progress for the loader of that name
CyclesInProgress(name) ==
  {t \in DOMAIN tasks : tasks[t].op = "reload" /\ tasks[t].arg = name}

\* C19 as claimed: at most one reload cycle is in progress for a loader at
\* any time.
C19_OneCycleAtATime ==
  \A name \in PackageNames : Cardinality(CyclesInProgress(name)) <= 1

\* ----------------------------------------------------------------- C12
\* a reload cycle begins for the loader of that name in this step
CycleBegins(name) ==
  \E t \in DOMAIN tasks :
    /\ tasks[t].op /= "reload"
    /\ tasks'[t].op = "reload"
    /\ tasks'[t].arg = name

\* C12: the change events of a watched loader that each arrive within the
\* debounce wait of the one before make one burst, and a burst makes one
\* reload: a reload cycle begins only when the full wait has passed since the
\* last event, it stands for every event of the burst, and an event that
\* arrives within the wait begins neither a reload nor a new burst.
C12_BurstReloadsOnce ==
  [][\A name \in PackageNames :
       LET w == watch.loader[name]
           after == watch'.loader[name]
       IN  /\ CycleBegins(name) =>
                /\ w.pending
                /\ w.sinceLast >= DEBOUNCE_WAIT
                /\ w.burst >= 1
                /\ after.reloads = w.reloads + 1
                /\ after.covered = w.burst
                /\ after.burst = 0
                /\ ~after.pending
           /\ after.reloads /= w.reloads => CycleBegins(name)
           /\ (after.burst = w.burst + 1 /\ w.pending /\ w.sinceLast < DEBOUNCE_WAIT) =>
                /\ after.bursts = w.bursts
                /\ after.reloads = w.reloads
                /\ after.remaining = DEBOUNCE_WAIT
                /\ ~CycleBegins(name)
           /\ after.pending <=> after.burst > 0
           /\ after.pending => after.remaining = DEBOUNCE_WAIT - after.sinceLast
           /\ after.bursts = after.reloads + (IF after.pending THEN 1 ELSE 0)]_vars

\* C12 witness: three change events in one burst have been answered by one
\* reload
C12_Witness ==
  \E name \in PackageNames :
    /\ watch.loader[name].reloads = 1
    /\ watch.loader[name].covered = 3
    /\ watch.loader[name].bursts = 1
    /\ \E t \in DOMAIN tasks : tasks[t].op = "reload" /\ tasks[t].arg = name

\* ----------------------------------------------------------------- C17
ManifestFiles == {File("nodes", "json"), File("credentials", "json")}

\* C17: the change of a file starts the debounce timer of a loader only when
\* a watcher was set up for the loader (its directory existed then) and, for a
\* lazy-loaded package, the file is one of its manifest files, for any other a
\* .js or .json file; any other change leaves timer and reloads as they are,
\* and a loader without a watcher is never reloaded.
C17_UnwatchedNeverReloads ==
  [][\A name \in PackageNames :
       LET w == watch.loader[name]
           after == watch'.loader[name]
       IN  /\ \A file \in Files :
                FileChange(name, file) =>
                  IF /\ w.state = "watched"
                     /\ \E i \in 1..Len(loaders) :
                          /\ loaders[i].packageName = name
                          /\ IF loaders[i].kind = KindLazy
                             THEN file \in ManifestFiles
                             ELSE file.ext \in {"js", "json"}
                  THEN /\ watch'.last.delivered
                       /\ after.pending
                       /\ after.remaining = DEBOUNCE_WAIT
                  ELSE /\ ~watch'.last.delivered
                       /\ after = w
                       /\ tasks' = tasks
                       /\ loaders' = loaders
           /\ CycleBegins(name) => w.state = "watched" /\ w.burst >= 1
           /\ after.state /= "watched" =>
                after.reloads = 0 /\ ~after.pending /\ after.burst = 0]_vars

\* C17 witness: a file outside the manifest of a watched lazy-loaded package
\* has changed and no timer runs
C17_Witness ==
  /\ watch.last.packageName = PkgBase
  /\ watch.last.file = File("package", "json")
  /\ ~watch.last.delivered
  /\ watch.loader[PkgBase].state = "watched"
  /\ ~watch.loader[PkgBase].pending
  /\ watch.loader[PkgBase].reloads = 0
  /\ watch.loader[PkgCustom].state = "missing"

\* ----------------------------------------------------------------- C21
RECURSIVE ConcatNodes(_, _)
ConcatNodes(ls, i) ==
  IF i > Len(ls) THEN <<>> ELSE ls[i].types.nodes \o ConcatNodes(ls, i + 1)

RECURSIVE ConcatCredentials(_, _)
ConcatCredentials(ls, i) ==
  IF i > Len(ls) THEN <<>> ELSE ls[i].types.credentials \o ConcatCredentials(ls, i + 1)

\* the loader registered last among those that know the credential / the node
LastKnowingCredential(ls, key) ==
  CHOOSE i \in 1..Len(ls) :
    /\ key \in DOMAIN ls[i].known.credentials
    /\ \A j \in (i + 1)..Len(ls) : key \notin DOMAIN ls[j].known.credentials

LastKnowingNode(ls, key) ==
  CHOOSE i \in 1..Len(ls) :
    /\ key \in DOMAIN ls[i].known.nodes
    /\ \A j \in (i + 1)..Len(ls) : key \notin DOMAIN ls[j].known.nodes

\* a is the merge of the loaders ls in their order, plus the derived entries
MergedExactly(a, ls) ==
  LET idx == 1..Len(ls)
      all == ConcatNodes(ls, 1)
      usable == SelectSeq(all, LAMBDA n : n.usableAsTool = TRUE)
      tools == {ToolName(usable[j].name) : j \in 1..Len(usable)}
      own == UNION {DOMAIN ls[i].known.nodes : i \in idx}
  IN  /\ DOMAIN a.known.nodes = own \cup tools
      /\ DOMAIN a.known.credentials = UNION {DOMAIN ls[i].known.credentials : i \in idx}
      /\ DOMAIN a.loaded.nodes = UNION {DOMAIN ls[i].nodeTypes : i \in idx}
      /\ DOMAIN a.loaded.credentials = UNION {DOMAIN ls[i].credentialTypes : i \in idx}
      /\ Len(a.types.nodes) = Len(all) + Len(usable)
      /\ \A k \in 1..Len(all) : SameButInjected(a.types.nodes[k], all[k])
      /\ \A j \in 1..Len(usable) :
           a.types.nodes[Len(all) + j].name = ToolName(usable[j].name)
      /\ a.types.credentials = ConcatCredentials(ls, 1)
      /\ \A key \in DOMAIN a.known.credentials :
           LET l == ls[LastKnowingCredential(ls, key)]
           IN  /\ a.known.credentials[key].className = l.known.credentials[key].className
               /\ a.known.credentials[key].sourcePath =
                    l.directory \o "/" \o l.known.credentials[key].sourcePath
               /\ a.known.credentials[key].extends = l.known.credentials[key].extends
      /\ \A key \in own :
           LET l == ls[LastKnowingNode(ls, key)]
           IN  /\ a.known.nodes[key].className = l.known.nodes[key].className
               /\ a.known.nodes[key].sourcePath =
                    l.directory \o "/" \o l.known.nodes[key].sourcePath
      /\ \A key \in DOMAIN a.loaded.nodes :
           \E i \in idx : key \in DOMAIN ls[i].nodeTypes /\ a.loaded.nodes[key] = ls[i].nodeTypes[key]
      /\ \A key \in DOMAIN a.loaded.credentials :
           \E i \in idx :
             /\ key \in DOMAIN ls[i].credentialTypes
             /\ a.loaded.credentials[key] = ls[i].credentialTypes[key]
             /\ \A j \in (i + 1)..Len(ls) : key \notin DOMAIN ls[j].credentialTypes

\* the step is a rebuild: postProcessLoaders runs its merge and derivation
RebuildStep ==
  \E t \in DOMAIN tasks : CallPostProcessLoaders(t) \/ HotReloadResolves(t)

\* C21: after every rebuild, whatever was loaded, unloaded and reloaded before,
\* the loaders merged are the active ones in registration order and the
\* aggregate is exactly their merge plus the derived entries: key sets are the
\* unions (plus tool names), the description list is the concatenation
\* followed by the tool variants, a key two loaders share carries the entry of
\* the one registered later, and nothing of a loader that is not active is
\* left.
C21_AggregateIsMergeOfActive ==
  [][RebuildStep =>
       /\ [i \in 1..Len(builtFrom') |-> builtFrom'[i].packageName] =
            [i \in 1..Len(loaders') |-> loaders'[i].packageName]
       /\ \A i \in 1..Len(loaders') :
            /\ loaders'[i].known = builtFrom'[i].known
            /\ loaders'[i].directory = builtFrom'[i].directory
       /\ \A t \in DOMAIN tasks :
            CallPostProcessLoaders(t) => builtFrom' = loaders
       /\ MergedExactly(Aggregate', builtFrom')]_vars

\* C21 witness: a rebuild after an unload, over a custom directory registered
\* before n8n-nodes-base, both declaring the credential plainApi: the entry of
\* n8n-nodes-base is the one in the aggregate
C21_Witness ==
  /\ lastCall.op = "postProcessLoaders"
  /\ lastCall.result = Ok
  /\ Len(builtFrom) = 2
  /\ builtFrom[1].directory = DirShapes
  /\ builtFrom[2].directory = DirBase1
  /\ "plainApi" \in DOMAIN builtFrom[1].known.credentials
  /\ known.credentials["plainApi"].sourcePath = DirBase1 \o "/" \o SourcePathOf("plainApi")
  /\ FullNodeName(PkgCustom, ToolName("mixed")) \in DOMAIN known.nodes

\* ----------------------------------------------------------------- C22
\* the credential type of that name in the list extends, directly or through
\* at most n further credential types of the list, a parent of the allow-list
RECURSIVE ReachesProxyParent(_, _, _)
ReachesProxyParent(creds, name, n) ==
  \E i \in 1..Len(creds) :
    /\ creds[i].name = name
    /\ IsSome(creds[i].extends)
    /\ \E parent \in SeqToSet(Val(creds[i].extends)) :
         \/ parent \in ProxyParents
         \/ n > 0 /\ ReachesProxyParent(creds, parent, n - 1)

\* some credential the node references declares authenticate or reaches the
\* allow-list along its extends chain
QualifiesByChain(creds, node) ==
  /\ IsSome(node.credentials)
  /\ \E c \in SeqToSet(Val(node.credentials)) :
       \/ \E i \in 1..Len(creds) : creds[i].name = c /\ IsSome(creds[i].authenticate)
       \/ ReachesProxyParent(creds, c, Len(creds))

\* the resource/operation parameters of the description that have options
InjectTargets(node) ==
  {k \in 1..Len(node.properties) :
     node.properties[k].name \in {"resource", "operation"} /\ IsSome(node.properties[k].options)}

\* every such parameter has the custom-call option as its last option
HasCustomCall(node) ==
  /\ InjectTargets(node) /= {}
  /\ \A k \in InjectTargets(node) :
       /\ Len(Val(node.properties[k].options)) > 0
       /\ Val(node.properties[k].options)[Len(Val(node.properties[k].options))] =
            CustomApiCallOption

\* no such parameter has it anywhere
LacksCustomCall(node) ==
  \A k \in InjectTargets(node) :
    \A o \in 1..Len(Val(node.properties[k].options)) :
      Val(node.properties[k].options)[o] /= CustomApiCallOption

\* C22 as claimed: a node of the rebuilt registry has the custom-call option
\* on its resource/operation parameters exactly when it is at its default
\* version and a credential it references declares authenticate or extends,
\* directly or through intermediate credential types, a parent of the
\* allow-list.
C22_InjectedIffChainQualifies ==
  \A i \in 1..Len(types.nodes) :
    LET node == types.nodes[i]
    IN  InjectTargets(node) /= {} =>
          IF IsLatestVersion(node) /\ QualifiesByChain(types.credentials, node)
          THEN HasCustomCall(node)
          ELSE LacksCustomCall(node)

\* ----------------------------------------------------------------- C23
\* the usable nodes of the description list whose tool variant is in the list
WrappedNodes ==
  {i \in 1..Len(types.nodes) :
     /\ types.nodes[i].usableAsTool = TRUE
     /\ IsSome(DescriptionOf(types.nodes, ToolName(types.nodes[i].name)))}

\* C23: for every usable node with its derived tool variant in the aggregate
\* and every entry of known.credentials, a supportedNodes list that holds the
\* name of the node in the registry holds the name of the tool as well,
\* whichever package declares the credential.
C23_ToolListedWithNode ==
  \A c \in DOMAIN known.credentials :
    \A i \in WrappedNodes :
      Includes(known.credentials[c].supportedNodes, types.nodes[i].name) =>
        Includes(known.credentials[c].supportedNodes, ToolName(types.nodes[i].name))

\* C23 witness: after a rebuild a credential of foo's package lists foo and
\* its tool, next to a credential of another package that lists a foo of its
\* own namespace
C23_Witness ==
  /\ lastCall.op = "postProcessLoaders"
  /\ IsSome(DescriptionOf(types.nodes, FooToolName))
  /\ "plainApi" \in DOMAIN known.credentials
  /\ Includes(known.credentials["plainApi"].supportedNodes, FooName)
  /\ Includes(known.credentials["plainApi"].supportedNodes, FooToolName)
  /\ "barApi" \in DOMAIN known.credentials
  /\ Includes(known.credentials["barApi"].supportedNodes, Qualify(PkgBeta, "foo"))

\* ----------------------------------------------------------------- C24
\* the loaders are as the last rebuild left them
LoadersSinceRebuild == loaders = SharedDescriptions(builtFrom, types.nodes)

\* every usable node of the list has exactly one tool variant in the list
OneToolEach(nodes) ==
  \A i \in 1..Len(nodes) :
    nodes[i].usableAsTool = TRUE =>
      Cardinality({k \in 1..Len(nodes) : nodes[k].name = ToolName(nodes[i].name)}) = 1

\* no tool variant is wrapped again
NoToolOfTool(nodes) ==
  \A i \in 1..Len(nodes) :
    nodes[i].usableAsTool = TRUE =>
      /\ \A k \in 1..Len(nodes) :
           nodes[k].name = ToolName(nodes[i].name) => nodes[k].usableAsTool = FALSE
      /\ \A k \in 1..Len(nodes) : nodes[k].name /= ToolName(ToolName(nodes[i].name))

\* each resource/operation parameter holds the custom-call option at most once
CustomCallAtMostOnce(nodes) ==
  \A i \in 1..Len(nodes) :
    \A k \in InjectTargets(nodes[i]) :
      CustomCount(Val(nodes[i].properties[k].options), 1) <= 1

\* C24 as claimed: a rebuild over loaders unchanged since the rebuild before it leaves
\* the aggregate and the loaders as they are; after it each usable node has
\* exactly one tool variant, no tool variant is wrapped again, and each
\* resource/operation parameter of the aggregate's and the loaders'
\* descriptions holds the custom-call option at most once.
C24_RebuildAgainSame ==
  [][(LoadersSinceRebuild /\ \E t \in DOMAIN tasks : CallPostProcessLoaders(t)) =>
       /\ known' = known
       /\ loaded' = loaded
       /\ types' = types
       /\ loaders' = loaders
       /\ OneToolEach(types'.nodes)
       /\ NoToolOfTool(types'.nodes)
       /\ CustomCallAtMostOnce(types'.nodes)
       /\ \A i \in 1..Len(loaders') : CustomCallAtMostOnce(loaders'[i].types.nodes)]_vars

\* a second rebuild in a row has completed over loaders with a usable node and
\* an injected description: the case in which C24 holds
C24_SecondRebuildCompleted ==
  /\ lastCall.op = "postProcessLoaders"
  /\ lastCall.result = Ok
  /\ LoadersSinceRebuild
  /\ IsSome(DescriptionOf(types.nodes, FooToolName))
  /\ EndsWithCustomCall(Val(DescriptionOf(types.nodes, FooName)))
  /\ \E i \in 1..Len(loaders) :
       \E k \in 1..Len(loaders[i].types.nodes) :
         /\ loaders[i].types.nodes[k].name = FooName
         /\ EndsWithCustomCall(loaders[i].types.nodes[k])

\* ----------------------------------------------------------------- C25
\* no credential type of that name is in the aggregate list
Unresolved(name) == ~IsSome(FindCredential(types.credentials, name))

\* the credential type resolves but names a parent that is neither in the
\* allow-list nor in the aggregate list
NamesLostParent(name) ==
  /\ ~Unresolved(name)
  /\ IsSome(Val(FindCredential(types.credentials, name)).extends)
  /\ \E parent \in SeqToSet(Val(Val(FindCredential(types.credentials, name)).extends)) :
       parent \notin ProxyParents /\ Unresolved(parent)

\* the last injection pass warned about that credential of that node
Warned(node, name) ==
  \E k \in 1..Len(warned) : warned[k] = [node |-> node.name, credential |-> name]

\* the nodes the injection pass looks at whose credentials do not all resolve
NodesWithUnresolved ==
  {i \in 1..Len(types.nodes) :
     /\ IsLatestVersion(types.nodes[i])
     /\ IsSome(types.nodes[i].credentials)
     /\ \E c \in SeqToSet(Val(types.nodes[i].credentials)) :
          Unresolved(c) \/ NamesLostParent(c)}

\* C25 as claimed: a rebuild over nodes that reference a credential name that
\* does not resolve, or a credential whose parent does not resolve, ends
\* without an error of the injection pass; each such credential has been
\* warned about, and such a node has the custom-call option only if another of
\* its credentials qualifies.
C25_UnresolvedWarnedNotFatal ==
  /\ lastCall.op \in {"postProcessLoaders", "reload"} => lastCall.result /= ErrType
  /\ \A i \in NodesWithUnresolved :
       LET node == types.nodes[i]
       IN  /\ \A c \in SeqToSet(Val(node.credentials)) :
                (Unresolved(c) \/ NamesLostParent(c)) => Warned(node, c)
           /\ ~LacksCustomCall(node) =>
                \E c \in SeqToSet(Val(node.credentials)) :
                  /\ ~Unresolved(c)
                  /\ ~NamesLostParent(c)
                  /\ QualifiesByChain(types.credentials, [credentials |-> Some(<<c>>)])

\* ----------------------------------------------------------------- C26
\* the tool variants of the description list, each with the node it was
\* derived from
DerivedPairs ==
  {<<i, k>> \in (1..Len(types.nodes)) \X (1..Len(types.nodes)) :
     /\ types.nodes[i].usableAsTool = TRUE
     /\ types.nodes[k].name = ToolName(types.nodes[i].name)}

\* C26: every derived tool variant of the aggregate description list has an
\* entry in known.nodes under its own name, and the entry is a defined
\* {className, sourcePath} record equal to the entry of the node it was
\* derived from.
C26_ToolKnownAsItsNode ==
  \A pair \in DerivedPairs :
    LET node == types.nodes[pair[1]].name
        tool == types.nodes[pair[2]].name
    IN  /\ tool \in DOMAIN known.nodes
        /\ node \in DOMAIN known.nodes
        /\ known.nodes[tool] /= UndefinedKnownEntry
        /\ known.nodes[tool].className /= Undefined
        /\ known.nodes[tool].sourcePath /= Undefined
        /\ known.nodes[tool] = known.nodes[node]

\* C26 witness: a rebuild has derived the tools of a package node and of a
\* node of a custom directory
C26_Witness ==
  /\ lastCall.op = "postProcessLoaders"
  /\ Cardinality(DerivedPairs) >= 2
  /\ FooToolName \in DOMAIN known.nodes
  /\ known.nodes[FooToolName] = known.nodes[FooName]
  /\ \E pair \in DerivedPairs : types.nodes[pair[1]].name = FullNodeName(PkgCustom, "mixed")

\* ----------------------------------------------------------------- C27
\* C27 as claimed: no postProcessLoaders call ends with the TypeError of the
\* injection pass, whatever the shape of the node descriptions, an empty
\* options array of a resource/operation parameter included: a rebuild with
\* hooks registered always gets to await its first hook.
C27_InjectionNeverThrows ==
  [][\A t \in DOMAIN tasks :
       CallPostProcessLoaders(t) =>
         /\ lastCall'.result /= ErrType
         /\ Len(postProcessors) > 0 => tasks'[t].pc = "hook"]_vars

LoaderSameButInjected(after, before) ==
  /\ [after EXCEPT !.types.nodes = before.types.nodes] = before
  /\ Len(after.types.nodes) = Len(before.types.nodes)
  /\ \A k \in 1..Len(before.types.nodes) :
       SameButInjected(after.types.nodes[k], before.types.nodes[k])

Emitted(g) == LastEmitted(g)

\* C29 as claimed: with Include Drafts off, whatever list the API returned, no
\* message the poll emits carries the DRAFT label, and every message it emits
\* was fetched exactly once and, with Simplify off, parsed exactly once.
C29_NoDraftEmittedAllFetched ==
  (gmail.pc = "idle" /\ ~gmail.includeDrafts) =>
    \A id \in Emitted(gmail) :
      /\ ~MessageOf(id).draft
      /\ Occurrences(gmail.fetched, id, 1) = 1
      /\ ~gmail.simple => Occurrences(gmail.parsed, id, 1) = 1

\* ----------------------------------------------------------------- C30
\* the step ends a poll
PollEnds == gmail.pc \notin {"idle", "none"} /\ gmail'.pc = "idle"

\* the newest internalDate among the messages of the list
RECURSIVE NewestDate(_, _)
NewestDate(list, i) ==
  IF i > Len(list) THEN 0
  ELSE LET rest == NewestDate(list, i + 1)
       IN  IF MessageOf(list[i]).date > rest THEN MessageOf(list[i]).date ELSE rest

\* C30 as claimed: a poll that received messages emits none of the ids the
\* last poll that received messages emitted, stores the ids of all messages it
\* received as possibleDuplicates, emits none of the ids stored before, and
\* sets lastTimeChecked to the newest date among the messages received; a
\* poll that received none emits nothing, keeps possibleDuplicates and sets
\* lastTimeChecked to the poll time.  (Polls that end by throwing aside.)
C30_PollsNeverRepeat ==
  [][(PollEnds /\ gmail'.result.kind /= "throw") =>
       IF Len(gmail'.received) > 0
       THEN /\ Emitted(gmail') \cap gmail.previous = {}
            /\ SeqToSet(gmail'.static.possibleDuplicates) = SeqToSet(gmail'.received)
            /\ Emitted(gmail') \cap SeqToSet(gmail.static.possibleDuplicates) = {}
            /\ gmail'.static.lastTimeChecked = NewestDate(gmail'.received, 1)
       ELSE /\ Emitted(gmail') = {}
            /\ gmail'.static.possibleDuplicates = gmail.static.possibleDuplicates
            /\ gmail'.static.lastTimeChecked = gmail.endDate]_vars

====
